---- MODULE Spec2Model ----
(***************************************************************************)
(* hoist: multi-service deployment orchestrator.                           *)
(*                                                                         *)
(*   Spec        deployAll, the parallel orchestrator (cmd_builds.go)      *)
(*   LiveSpec    Spec with the fairness of the Go scheduler                *)
(*   ServerSpec  serverDeployer.deploy and pollHealthcheck                 *)
(*               (server_deployer.go) against a docker host                *)
(*   LogSpec     deployAllWithLog: the run, the rollback prompt and the    *)
(*               rollback pass (cmd_builds.go)                             *)
(*   BlockSpec   replaceCrontabBlock on bounded documents                  *)
(*               (cronjob_deployer.go)                                     *)
(*   CronSpec    cronjobDeployer.deploy, rollout after rollout, against a  *)
(*               remote crontab (cronjob_deployer.go)                      *)
(*   ChannelSpec a rollout of either kind, ServerSpec or CronSpec          *)
(*   MergeSpec   mergedBuildsProvider.listBuilds, one page and the page    *)
(*               after it (cmd_builds.go)                                  *)
(*   TagSpec     generateTag and parseTag on bounded strings (tag.go)      *)
(*   StaticSpec  staticDeployer.deploy against a bucket and a CDN          *)
(*               (static_deployer.go)                                      *)
(*   PairSpec    two cronjob rollouts spawned by one deployAll on the      *)
(*               crontab of one node (cmd_builds.go, cronjob_deployer.go)  *)
(***************************************************************************)
EXTENDS Integers, Sequences, FiniteSets, TLC

(***************************************************************************)
(* Bounds.                                                                 *)
(***************************************************************************)
MaxServices == 3

\* error values a deploy call can return; 0 is the nil error
ErrorValues == {1, 2}

VARIABLES
    \* ---- deployAll ----
    services,   \* the services argument: services 1..services, in list order
    outcome,    \* what deployService returns for each service (0 = nil)
    mainpc,     \* position of deployAll's own goroutine
    spawned,    \* number of loop iterations of the spawn loop done so far
    wg,         \* the sync.WaitGroup counter
    gpc,        \* position of each service's goroutine
    gerr,       \* the err local of each service's goroutine
    results,    \* the buffered results channel, oldest first
    closed,     \* close(results) has been called
    calls,      \* number of deployService invocations per service
    failed,     \* deployResult.failed
    errs,       \* deployResult.errors (0 = key absent)
    \* ---- serverDeployer.deploy ----
    tag,        \* the tag being deployed
    oldTag,     \* the tag the caller says is running ("" = first deploy)
    interval,   \* d.pollInterval
    timeout,    \* d.pollTimeout
    host,       \* the containers on the docker host
    host0,      \* the containers on the host when the rollout began
    spc,        \* position of deploy / pollHealthcheck
    chan,       \* the ssh channel: "none", "open" or "closed"
    closes,     \* number of client.close() calls
    cmds,       \* every client.run issued so far, oldest first
    ret,        \* what deploy returned ("running" = not yet)
    pollErr,    \* what pollHealthcheck returned ("none" = not yet)
    now,        \* the clock
    deadlineAt, \* when time.After(timeout) fires
    nextTick,   \* when the ticker fires next
    tickBuf,    \* a tick is waiting in ticker.C (capacity 1)
    probeAt,    \* when the probe in flight was issued
    ticksTaken, \* number of values received from ticker.C
    cancelAt,   \* when ctx was cancelled
    cancelled,  \* ctx.Done() is closed
    cancelInPoll, \* ctx was cancelled while pollHealthcheck was running
    oldContainers, \* the result of listServiceContainers
    sweepIdx,   \* index of the range loop over oldContainers
    ip,         \* pollHealthcheck's ip: the output of docker inspect
    probes,     \* the address of every curl issued so far, oldest first
    \* ---- deployAllWithLog ----
    svcs,       \* the services of the run
    tags,       \* the tags argument: service -> tag to deploy
    previousTags, \* the previousTags argument: a map, keys may be missing
    promptIn,   \* the line the operator types at the rollback prompt
    lpc,        \* position of deployAllWithLog
    pending,    \* services of the running deployAll not yet deployed
    deployCalls, \* every deployService call made so far
    resultFailed, \* result.failed of the first deployAll
    choice,     \* what promptRollback returned
    rollbackServices, \* the services the chosen scope selects
    rollbackTags, \* service -> tag to roll back to
    skipped,    \* services reported as "skipping ...: no previous deploy"
    rbFailed,   \* rbResult.failed of the rollback deployAll
    logRet,     \* what deployAllWithLog returned ("running" = not yet)
    \* ---- replaceCrontabBlock ----
    doc,        \* the crontab argument, as the lines strings.Split gives
    blockID,    \* the blockID argument
    newBlock,   \* the newBlock argument, as lines
    res,        \* replaceCrontabBlock(doc, blockID, newBlock)
    res2,       \* replaceCrontabBlock(res, blockID, newBlock)
    ext,        \* extractCrontabBlock(doc, blockID)
    bpc,        \* how many times the function has been applied
    \* ---- cronjobDeployer.deploy ----
    remote,     \* the crontab installed on the node, as lines
    cpc,        \* position of deploy
    cronID,     \* service + "-" + env of the rollout
    cronTag,    \* the tag argument
    cronOld,    \* the oldTag argument
    crontab,    \* the crontab local
    readOk,     \* whether crontab -l succeeded in this rollout
    cronRet,    \* what deploy returned ("running" = not yet)
    deployed,   \* blockIDs whose rollout has returned nil
    remote0,    \* the crontab on the node when the rollout began
    cronCmds,   \* every client.run of the rollout so far, oldest first
    cronChan,   \* the ssh channel of the rollout
    cronCloses, \* number of client.close() calls of the rollout
    rollouts,   \* number of rollouts started
    histCur,    \* the last answer of cronjobHistoryProvider.current
    histPrev,   \* the last answer of cronjobHistoryProvider.previous
    \* ---- mergedBuildsProvider.listBuilds ----
    fetched,    \* results: what each provider's listBuilds returned
    limit,      \* the limit argument
    offset,     \* the offset argument
    page,       \* the builds the call returned
    pageErr,    \* whether the call returned an error
    page2,      \* the builds the call for the following page returned
    pageAgain,  \* the builds a second call for the same page returned
    mpc,        \* position of the caller
    \* ---- generateTag and parseTag ----
    genBranch,  \* the branch argument of generateTag
    genSha,     \* the sha argument
    genTime,    \* the ts argument
    genAttempt, \* the attempt argument, in decimal
    tagStr,     \* the string handed to parseTag
    parsed,     \* what parseTag returned: the tag and the error
    rebuilt,    \* build.Tag that buildFromTag made of the parsed tag
    tpc,        \* position of the caller
    \* ---- staticDeployer.deploy ----
    stTag,      \* the tag argument
    stOld,      \* the oldTag argument
    stKeys,     \* number of objects under builds/<tag>/ in the bucket
    stpc,       \* position of deploy
    stPuts,     \* every PutObject call so far, oldest first
    stMarkers,  \* the previous-tag and current-tag objects of the bucket
    stMarkers0, \* the two objects when deploy was called
    stPending,  \* copyObjects: the keys whose goroutine has not copied yet
    stCopied,   \* the keys copied to current/
    stFirstErr, \* copyObjects: firstErr != nil
    stInval,    \* number of CreateInvalidation calls
    stRet,      \* what deploy returned ("running" = not yet)
    \* ---- two cronjob rollouts of one deployAll on one node ----
    pairRemote, \* the crontab on the node
    pairTag,    \* the tag of each rollout
    pairPc,     \* position of each rollout
    pairTab,    \* each rollout's local crontab
    pairRead,   \* whether each rollout's crontab -l succeeded
    pairRet     \* what each rollout returned ("running" = not yet)

orchVars == <<services, outcome, mainpc, spawned, wg, gpc, gerr, results,
              closed, calls, failed, errs>>

serverVars == <<tag, oldTag, interval, timeout, host, host0, spc, chan, closes, cmds,
                ret, pollErr, now, deadlineAt, nextTick, tickBuf, probeAt,
                ticksTaken, cancelAt, cancelled, cancelInPoll, oldContainers,
                sweepIdx, ip, probes>>

logVars == <<svcs, tags, previousTags, promptIn, lpc, pending, deployCalls,
             resultFailed, choice, rollbackServices, rollbackTags, skipped,
             rbFailed, logRet>>

blockVars == <<doc, blockID, newBlock, res, res2, ext, bpc>>

cronVars == <<remote, cpc, cronID, cronTag, cronOld, crontab, readOk, cronRet,
              deployed, remote0, cronCmds, cronChan, cronCloses, rollouts,
              histCur, histPrev>>

mergeVars == <<fetched, limit, offset, page, pageErr, page2, pageAgain, mpc>>

tagVars == <<genBranch, genSha, genTime, genAttempt, tagStr, parsed, rebuilt, tpc>>

staticVars == <<stTag, stOld, stKeys, stpc, stPuts, stMarkers, stMarkers0,
                stPending, stCopied, stFirstErr, stInval, stRet>>

pairVars == <<pairRemote, pairTag, pairPc, pairTab, pairRead, pairRet>>

moreVars == <<staticVars, pairVars>>

pureVars == <<mergeVars, tagVars, moreVars>>

restVars == <<logVars, blockVars, cronVars, pureVars>>

vars == <<orchVars, serverVars, restVars>>

Svc == 1..services

(***************************************************************************)
(* deployAll                                                               *)
(***************************************************************************)
\* deployAllWithLog before it is called
LogIdle ==
    /\ svcs = {} /\ tags = <<>> /\ previousTags = <<>> /\ promptIn = ""
    /\ lpc = "idle" /\ pending = {} /\ deployCalls = {} /\ resultFailed = {}
    /\ choice = "" /\ rollbackServices = {} /\ rollbackTags = <<>>
    /\ skipped = {} /\ rbFailed = {} /\ logRet = <<"running">>

\* replaceCrontabBlock before it is called
BlockIdle ==
    /\ doc = <<>> /\ blockID = "" /\ newBlock = <<>> /\ res = <<>>
    /\ res2 = <<>> /\ ext = <<>> /\ bpc = "idle"

\* the cronjob rollout before it is started
CronIdle ==
    /\ remote = <<>> /\ cpc = "idle" /\ cronID = "" /\ cronTag = ""
    /\ cronOld = "" /\ crontab = <<>> /\ readOk = FALSE /\ cronRet = "running"
    /\ deployed = {} /\ remote0 = <<>> /\ cronCmds = <<>> /\ cronChan = "none"
    /\ cronCloses = 0 /\ rollouts = 0
    /\ histCur = <<>> /\ histPrev = <<>>

\* the merged catalog before it is asked
MergeIdle ==
    /\ fetched = <<>> /\ limit = 0 /\ offset = 0 /\ page = <<>>
    /\ pageErr = FALSE /\ page2 = <<>> /\ pageAgain = <<>> /\ mpc = "idle"

\* the tag codec before it is called
TagIdle ==
    /\ genBranch = <<>> /\ genSha = <<>> /\ genTime = <<>> /\ genAttempt = <<>>
    /\ tagStr = <<>> /\ parsed = <<>> /\ rebuilt = <<>> /\ tpc = "idle"

\* the static rollout before it is started
StaticIdle ==
    /\ stTag = "" /\ stOld = "" /\ stKeys = 0 /\ stpc = "idle" /\ stPuts = <<>>
    /\ stMarkers = <<>> /\ stMarkers0 = <<>> /\ stPending = {} /\ stCopied = {}
    /\ stFirstErr = FALSE /\ stInval = 0 /\ stRet = "running"

\* the two rollouts before deployAll spawns them
PairIdle ==
    /\ pairRemote = <<>> /\ pairTag = <<>> /\ pairPc = <<>> /\ pairTab = <<>>
    /\ pairRead = <<>> /\ pairRet = <<>>

MoreIdle == StaticIdle /\ PairIdle

PureIdle == MergeIdle /\ TagIdle /\ MoreIdle

RestIdle == LogIdle /\ BlockIdle /\ CronIdle /\ PureIdle

\* the server rollout before it is started
ServerIdle ==
    /\ tag = "" /\ oldTag = "" /\ interval = 0 /\ timeout = 0
    /\ host = {} /\ host0 = {} /\ spc = "idle" /\ chan = "none" /\ closes = 0
    /\ cmds = <<>> /\ ret = "running" /\ pollErr = "none"
    /\ now = 0 /\ deadlineAt = 0 /\ nextTick = 0 /\ tickBuf = FALSE
    /\ probeAt = 0 /\ ticksTaken = 0 /\ cancelAt = 0 /\ cancelled = FALSE
    /\ cancelInPoll = FALSE
    /\ oldContainers = <<>> /\ sweepIdx = 0
    /\ ip = "" /\ probes = <<>>

Init ==
    /\ ServerIdle
    /\ RestIdle
    /\ services \in 0..MaxServices
    /\ outcome \in [1..services -> {0} \cup ErrorValues]
    /\ mainpc = "spawn"
    /\ spawned = 0
    /\ wg = 0
    /\ gpc = [s \in 1..services |-> "unborn"]
    /\ gerr = [s \in 1..services |-> 0]
    /\ results = <<>>
    /\ closed = FALSE
    /\ calls = [s \in 1..services |-> 0]
    /\ failed = <<>>
    /\ errs = [s \in 1..services |-> 0]

\* for _, svc := range services { wg.Add(1); go func(svc string) {...}(svc) }
SpawnNext ==
    /\ mainpc = "spawn"
    /\ spawned < services
    /\ spawned' = spawned + 1
    /\ wg' = wg + 1
    /\ gpc' = [gpc EXCEPT ![spawned + 1] = "deploy"]
    /\ UNCHANGED <<serverVars, restVars>>
    /\ UNCHANGED <<services, outcome, mainpc, gerr, results, closed, calls,
                   failed, errs>>

SpawnDone ==
    /\ mainpc = "spawn"
    /\ spawned = services
    /\ mainpc' = "wait"
    /\ UNCHANGED <<serverVars, restVars>>
    /\ UNCHANGED <<services, outcome, spawned, wg, gpc, gerr, results, closed,
                   calls, failed, errs>>

\* err := deployService(ctx, cfg, p, svc, env, tags[svc], oldTag, logf)
TaskDeploy(s) ==
    /\ gpc[s] = "deploy"
    /\ calls' = [calls EXCEPT ![s] = @ + 1]
    /\ gerr' = [gerr EXCEPT ![s] = outcome[s]]
    /\ gpc' = [gpc EXCEPT ![s] = "send"]
    /\ UNCHANGED <<serverVars, restVars>>
    /\ UNCHANGED <<services, outcome, mainpc, spawned, wg, results, closed,
                   failed, errs>>

\* results <- result{service: svc, err: err}; the channel has room for
\* len(services) values, a send on a closed channel panics
TaskSend(s) ==
    /\ gpc[s] = "send"
    /\ Len(results) < services
    /\ ~closed
    /\ results' = Append(results, [service |-> s, err |-> gerr[s]])
    /\ gpc' = [gpc EXCEPT ![s] = "exit"]
    /\ UNCHANGED <<serverVars, restVars>>
    /\ UNCHANGED <<services, outcome, mainpc, spawned, wg, gerr, closed,
                   calls, failed, errs>>

\* defer wg.Done()
TaskDone(s) ==
    /\ gpc[s] = "exit"
    /\ wg' = wg - 1
    /\ gpc' = [gpc EXCEPT ![s] = "done"]
    /\ UNCHANGED <<serverVars, restVars>>
    /\ UNCHANGED <<services, outcome, mainpc, spawned, gerr, results, closed,
                   calls, failed, errs>>

\* wg.Wait() returns when the counter is zero
WaitReturns_nowait(n) == TRUE
WaitReturns(n) == n = 0

\* wg.Wait(); close(results)
WaitClose ==
    /\ mainpc = "wait"
    /\ WaitReturns(wg)
    /\ closed' = TRUE
    /\ mainpc' = "drain"
    /\ UNCHANGED <<serverVars, restVars>>
    /\ UNCHANGED <<services, outcome, spawned, wg, gpc, gerr, results, calls,
                   failed, errs>>

\* if r.err != nil
IsFailure_all(e) == TRUE
IsFailure(e) == e # 0

\* for r := range results { if r.err != nil { failed = append(...); errs[..] = r.err } }
Drain ==
    /\ mainpc = "drain"
    /\ results # <<>>
    /\ LET r == Head(results) IN
        /\ results' = Tail(results)
        /\ IF IsFailure(r.err)
           THEN /\ failed' = Append(failed, r.service)
                /\ errs' = [errs EXCEPT ![r.service] = r.err]
           ELSE UNCHANGED <<failed, errs>>
    /\ UNCHANGED <<serverVars, restVars>>
    /\ UNCHANGED <<services, outcome, mainpc, spawned, wg, gpc, gerr, closed,
                   calls>>

\* the range loop ends when the channel is closed and empty;
\* return deployResult{failed: failed, errors: errs}, nil
Return ==
    /\ mainpc = "drain"
    /\ results = <<>>
    /\ closed
    /\ mainpc' = "returned"
    /\ UNCHANGED <<serverVars, restVars>>
    /\ UNCHANGED <<services, outcome, spawned, wg, gpc, gerr, results, closed,
                   calls, failed, errs>>

MainStep == SpawnNext \/ SpawnDone \/ WaitClose \/ Drain \/ Return

TaskStep == \E s \in Svc : TaskDeploy(s) \/ TaskSend(s) \/ TaskDone(s)

Next ==
    \/ SpawnNext
    \/ SpawnDone
    \/ WaitClose
    \/ Drain
    \/ Return
    \/ \E s \in Svc : TaskDeploy(s)
    \/ \E s \in Svc : TaskSend(s)
    \/ \E s \in Svc : TaskDone(s)

Spec == Init /\ [][Next]_vars

\* the Go scheduler runs every runnable goroutine eventually
TaskOf(s) == s \in Svc /\ (TaskDeploy(s) \/ TaskSend(s) \/ TaskDone(s))

LiveSpec == Spec /\ WF_vars(MainStep) /\ \A s \in 1..MaxServices : WF_vars(TaskOf(s))


(***************************************************************************)
(* serverDeployer.deploy and pollHealthcheck                               *)
(*                                                                         *)
(* A string that is a container or service name is the sequence of its     *)
(* hyphen-separated segments: "api-worker-t1" is <<"api", "worker", "t1">>.*)
(***************************************************************************)
Service == <<"api">>
OtherService == <<"api", "worker">>
Tags == {"t1", "t2"}
Intervals == {1, 2}
Timeouts == {2, 3}

\* the clock stops at MaxTime; a probe takes at most MaxProbeDur
MaxTime == 5
MaxProbeDur == 2

\* service + "-" + tag
Name(svc, t) == Append(svc, t)

\* oldName + "-old"
TempName(n) == Append(n, "old")

\* strings.HasPrefix(line, service+"-")
HasPrefix(line, svc) == Len(line) > Len(svc) /\ SubSeq(line, 1, Len(svc)) = svc

\* docker ps --filter "name=<service>-": the name contains "<service>-"
FilterMatches(n, svc) ==
    \E i \in 1..Len(n) :
        /\ i + Len(svc) - 1 < Len(n)
        /\ SubSeq(n, i, i + Len(svc) - 1) = svc

\* the container a name refers to on the host ("none" when there is none)
Find(h, n) == IF \E c \in h : c.name = n THEN (CHOOSE c \in h : c.name = n).id ELSE "none"

Container(id, n, r, o) == [id |-> id, name |-> n, running |-> r, owner |-> o]

\* the hosts a rollout can find: the instance that is running for the
\* service (if any), an orphan of an earlier attempt (running or stopped),
\* another service's instance
InitialHosts(rt) ==
    { (IF rt = "" THEN {} ELSE {Container("prev", Name(Service, rt), TRUE, Service)})
        \cup orphan \cup other :
        orphan \in {{}} \cup {{Container("orphan", Name(Service, "t3"), r, Service)} : r \in BOOLEAN},
        other \in SUBSET {Container("other", Name(OtherService, "t1"), TRUE, OtherService)} }

\* a remote command can always fail; what it does when it succeeds is docker's
RenameOutcomes(h, a, b) ==
    {[ok |-> FALSE, host |-> h]} \cup
    (IF Find(h, a) # "none" /\ Find(h, b) = "none"
     THEN {[ok |-> TRUE, host |-> {IF c.name = a THEN [c EXCEPT !.name = b] ELSE c : c \in h}]}
     ELSE {})

\* docker run -d --name n: fails when the name is taken; a failed run may
\* leave a created, stopped container behind
RunOutcomes(h, n, o) ==
    {[ok |-> FALSE, host |-> h]} \cup
    (IF Find(h, n) = "none"
     THEN {[ok |-> TRUE, host |-> h \cup {Container("new", n, TRUE, o)}],
           [ok |-> FALSE, host |-> h \cup {Container("new", n, FALSE, o)}]}
     ELSE {})

StopOutcomes(h, n) ==
    {[ok |-> FALSE, host |-> h]} \cup
    (IF Find(h, n) # "none"
     THEN {[ok |-> TRUE, host |-> {IF c.name = n THEN [c EXCEPT !.running = FALSE] ELSE c : c \in h}]}
     ELSE {})

\* docker rm without -f refuses a running container
RmOutcomes(h, n) ==
    {[ok |-> FALSE, host |-> h]} \cup
    (IF \E c \in h : c.name = n /\ ~c.running
     THEN {[ok |-> TRUE, host |-> {c \in h : c.name # n}]}
     ELSE {})

IdOrder == <<"prev", "orphan", "other", "new">>

RECURSIVE PsLines(_, _, _)
PsLines(h, svc, i) ==
    IF i > Len(IdOrder) THEN <<>>
    ELSE LET m == {c \in h : c.id = IdOrder[i] /\ c.running /\ FilterMatches(c.name, svc)}
         IN (IF m = {} THEN <<>> ELSE <<(CHOOSE c \in m : TRUE).name>>) \o PsLines(h, svc, i + 1)

RECURSIVE KeepPrefixed(_, _)
KeepPrefixed(lines, svc) ==
    IF lines = <<>> THEN <<>>
    ELSE (IF HasPrefix(Head(lines), svc) THEN <<Head(lines)>> ELSE <<>>)
         \o KeepPrefixed(Tail(lines), svc)

\* listServiceContainers on success
listServiceContainers(h, svc) == KeepPrefixed(PsLines(h, svc, 1), svc)

Cmd(op, n, ok) == [op |-> op, name |-> n, target |-> Find(host, n), ok |-> ok, at |-> now]

containerName == Name(Service, tag)

inputVars == <<tag, oldTag, interval, timeout, host0>>
timeVars == <<now, deadlineAt, nextTick, tickBuf, probeAt, ticksTaken>>
cancelVars == <<cancelled, cancelAt, cancelInPoll>>
sweepVars == <<oldContainers, sweepIdx>>
pollVars == <<ip, probes>>

\* the bridge addresses docker inspect can print for the new container
Addresses == {"172.17.0.2", "172.17.0.3"}

ServerInit ==
    /\ RestIdle
    /\ services = 0 /\ outcome = <<>> /\ mainpc = "idle" /\ spawned = 0
    /\ wg = 0 /\ gpc = <<>> /\ gerr = <<>> /\ results = <<>>
    /\ closed = FALSE /\ calls = <<>> /\ failed = <<>> /\ errs = <<>>
    /\ tag \in Tags
    /\ \E rt \in {""} \cup Tags :
        \* the caller read oldTag from the host, or this is the rollback pass
        \* that redeploys the running tag over the tag that just failed
        /\ oldTag \in {rt} \cup (IF rt = tag THEN Tags ELSE {})
        /\ host \in InitialHosts(rt)
    /\ host0 = host
    /\ interval \in Intervals
    /\ timeout \in Timeouts
    /\ spc = "connect" /\ chan = "none" /\ closes = 0
    /\ cmds = <<>> /\ ret = "running" /\ pollErr = "none"
    /\ now = 0 /\ deadlineAt = 0 /\ nextTick = 0 /\ tickBuf = FALSE
    /\ probeAt = 0 /\ ticksTaken = 0 /\ cancelAt = 0 /\ cancelled = FALSE
    /\ cancelInPoll = FALSE
    /\ oldContainers = <<>> /\ sweepIdx = 0
    /\ ip = "" /\ probes = <<>>

Finish_leak(r) ==
    /\ ret' = r
    /\ spc' = "done"
    /\ UNCHANGED <<chan, closes>>

\* return <r> with the deferred client.close()
Finish(r) ==
    /\ ret' = r
    /\ spc' = "done"
    /\ chan' = "closed"
    /\ closes' = closes + 1

\* where deploy goes after d.dial(addr)
DialNext_ignore(ok) == "pull"
DialNext(ok) == IF ok THEN "pull" ELSE "done"

\* client, err := d.dial(addr); if err != nil { return "connecting to ..." }
Dial ==
    /\ spc = "connect"
    /\ \E ok \in BOOLEAN :
        /\ spc' = DialNext(ok)
        /\ chan' = IF ok THEN "open" ELSE "refused"
        /\ ret' = IF spc' = "done" THEN "connecting" ELSE ret
    /\ UNCHANGED <<host, closes, cmds, pollErr>>
    /\ UNCHANGED <<inputVars, timeVars, cancelVars, sweepVars, orchVars, restVars, pollVars>>

\* where deploy goes after docker pull
PullNext_ignore(ok) == IF tag = oldTag /\ oldTag # "" THEN "rename" ELSE "start"
PullNext(ok) ==
    IF ~ok THEN "done"
    ELSE IF tag = oldTag /\ oldTag # "" THEN "rename" ELSE "start"

\* docker pull <image>:<tag>
Pull ==
    /\ spc = "pull"
    /\ \E ok \in BOOLEAN :
        /\ cmds' = Append(cmds, Cmd("pull", <<>>, ok))
        /\ IF PullNext(ok) = "done"
           THEN Finish("pulling image")
           ELSE spc' = PullNext(ok) /\ UNCHANGED <<ret, chan, closes>>
    /\ UNCHANGED <<host, pollErr>>
    /\ UNCHANGED <<inputVars, timeVars, cancelVars, sweepVars, orchVars, restVars, pollVars>>

\* docker rename <service>-<oldTag> <service>-<oldTag>-old
Rename ==
    /\ spc = "rename"
    /\ LET oldName == Name(Service, oldTag) IN
       \E out \in RenameOutcomes(host, oldName, TempName(oldName)) :
        /\ cmds' = Append(cmds, Cmd("rename", oldName, out.ok))
        /\ host' = out.host
        /\ IF out.ok
           THEN spc' = "start" /\ UNCHANGED <<ret, chan, closes>>
           ELSE Finish("renaming old container")
    /\ UNCHANGED pollErr
    /\ UNCHANGED <<inputVars, timeVars, cancelVars, sweepVars, orchVars, restVars, pollVars>>

\* where deploy goes after docker run
StartNext_nopoll(ok) == IF ok THEN "sweep_list" ELSE "start_rm"
StartNext(ok) == IF ok THEN "poll_ip" ELSE "start_rm"

\* docker run -d --name <service>-<tag> ...
Start ==
    /\ spc = "start"
    /\ \E out \in RunOutcomes(host, containerName, Service) :
        /\ cmds' = Append(cmds, Cmd("run", containerName, out.ok))
        /\ host' = out.host
        /\ spc' = StartNext(out.ok)
    /\ UNCHANGED <<chan, closes, ret, pollErr>>
    /\ UNCHANGED <<inputVars, timeVars, cancelVars, sweepVars, orchVars, restVars, pollVars>>

\* client.run(ctx, "docker rm <containerName>"); return "starting container"
StartRm ==
    /\ spc = "start_rm"
    /\ \E out \in RmOutcomes(host, containerName) :
        /\ cmds' = Append(cmds, Cmd("rm", containerName, out.ok))
        /\ host' = out.host
    /\ Finish("starting container")
    /\ UNCHANGED pollErr
    /\ UNCHANGED <<inputVars, timeVars, cancelVars, sweepVars, orchVars, restVars, pollVars>>

\* docker inspect <container>; deadline := time.After(timeout);
\* ticker := time.NewTicker(interval); then the first attempt is issued
PollIP ==
    /\ spc = "poll_ip"
    /\ \E ok \in BOOLEAN :
        /\ cmds' = Append(cmds, Cmd("inspect", containerName, ok))
        /\ ip' \in IF ok THEN Addresses ELSE {""}
        /\ IF ok
           THEN /\ deadlineAt' = now + timeout
                /\ nextTick' = now + interval
                /\ tickBuf' = FALSE
                /\ probeAt' = now
                /\ spc' = "probing"
                /\ UNCHANGED pollErr
           ELSE /\ pollErr' = "getting container IP"
                /\ spc' = "hc_failed"
                /\ UNCHANGED <<deadlineAt, nextTick, tickBuf, probeAt>>
    /\ UNCHANGED <<host, chan, closes, ret, now, ticksTaken, probes>>
    /\ UNCHANGED <<inputVars, cancelVars, sweepVars, orchVars, restVars>>

\* where pollHealthcheck goes when a probe has returned
ProbeNext_goon(ok) == "poll_select"
ProbeNext(ok) == IF ok THEN "sweep_list" ELSE "poll_select"

HealthAddr_name(ipv, container) == container

\* healthCmd := fmt.Sprintf("curl -sf http://%s:%d%s", ip, port, path)
HealthAddr(ipv, container) == ipv

\* if _, err := client.run(ctx, healthCmd); err == nil { return nil }
ProbeEnd ==
    /\ spc = "probing"
    /\ \E ok \in BOOLEAN :
        /\ cmds' = Append(cmds, [Cmd("curl", containerName, ok) EXCEPT !.at = probeAt])
        /\ spc' = ProbeNext(ok)
        /\ pollErr' = IF spc' = "sweep_list" THEN "ok" ELSE pollErr
    /\ probes' = Append(probes, HealthAddr(ip, containerName))
    /\ UNCHANGED <<host, chan, closes, ret, ip>>
    /\ UNCHANGED <<inputVars, timeVars, cancelVars, sweepVars, orchVars, restVars>>

\* some case of the select can proceed
SelectReady == cancelled \/ now >= deadlineAt \/ tickBuf

\* time passes while a probe is in flight or the select blocks
Tick ==
    /\ now < MaxTime
    /\ \/ spc = "probing" /\ now - probeAt < MaxProbeDur
       \/ spc = "poll_select" /\ ~SelectReady
    /\ now' = now + 1
    /\ tickBuf' = (tickBuf \/ now + 1 = nextTick)
    /\ nextTick' = IF now + 1 = nextTick THEN nextTick + interval ELSE nextTick
    /\ UNCHANGED <<host, spc, chan, closes, cmds, ret, pollErr, deadlineAt,
                   probeAt, ticksTaken>>
    /\ UNCHANGED <<inputVars, cancelVars, sweepVars, orchVars, restVars, pollVars>>

\* case <-ctx.Done(): return ctx.Err()
SelCancel ==
    /\ spc = "poll_select"
    /\ cancelled
    /\ pollErr' = "canceled"
    /\ spc' = "hc_failed"
    /\ UNCHANGED <<host, chan, closes, cmds, ret>>
    /\ UNCHANGED <<inputVars, timeVars, cancelVars, sweepVars, orchVars, restVars, pollVars>>

\* case <-deadline: return "timed out after ..."
SelDeadline ==
    /\ spc = "poll_select"
    /\ now >= deadlineAt
    /\ pollErr' = "timed out"
    /\ spc' = "hc_failed"
    /\ UNCHANGED <<host, chan, closes, cmds, ret>>
    /\ UNCHANGED <<inputVars, timeVars, cancelVars, sweepVars, orchVars, restVars, pollVars>>

\* case <-ticker.C: the next attempt is issued
SelTick ==
    /\ spc = "poll_select"
    /\ tickBuf
    /\ tickBuf' = FALSE
    /\ ticksTaken' = ticksTaken + 1
    /\ probeAt' = now
    /\ spc' = "probing"
    /\ UNCHANGED <<host, chan, closes, cmds, ret, pollErr, now, deadlineAt, nextTick>>
    /\ UNCHANGED <<inputVars, cancelVars, sweepVars, orchVars, restVars, pollVars>>

\* the caller cancels ctx
Cancel ==
    /\ spc \notin {"idle", "done"}
    /\ ~cancelled
    /\ cancelled' = TRUE
    /\ cancelAt' = now
    /\ cancelInPoll' = (spc \in {"probing", "poll_select"})
    /\ UNCHANGED <<host, spc, chan, closes, cmds, ret, pollErr>>
    /\ UNCHANGED <<inputVars, timeVars, sweepVars, orchVars, restVars, pollVars>>

\* the container the cleanup after a failed health check is aimed at
CleanupName_old(svc, t, o) == Name(svc, o)
CleanupName(svc, t, o) == Name(svc, t)

\* client.run(ctx, "docker stop <containerName>"), result ignored
CleanupStop ==
    /\ spc = "hc_failed"
    /\ LET n == CleanupName(Service, tag, oldTag) IN
       \E out \in StopOutcomes(host, n) :
        /\ cmds' = Append(cmds, Cmd("stop", n, out.ok))
        /\ host' = out.host
    /\ spc' = "hc_rm"
    /\ UNCHANGED <<chan, closes, ret, pollErr>>
    /\ UNCHANGED <<inputVars, timeVars, cancelVars, sweepVars, orchVars, restVars, pollVars>>

\* client.run(ctx, "docker rm <containerName>"), result ignored;
\* return "healthcheck failed: ..."
CleanupRm ==
    /\ spc = "hc_rm"
    /\ LET n == CleanupName(Service, tag, oldTag) IN
       \E out \in RmOutcomes(host, n) :
        /\ cmds' = Append(cmds, Cmd("rm", n, out.ok))
        /\ host' = out.host
    /\ Finish("healthcheck failed")
    /\ UNCHANGED pollErr
    /\ UNCHANGED <<inputVars, timeVars, cancelVars, sweepVars, orchVars, restVars, pollVars>>

\* oldContainers, err := listServiceContainers(ctx, client, service);
\* an error is logged and leaves the list nil
SweepList ==
    /\ spc = "sweep_list"
    /\ \E ok \in BOOLEAN :
        /\ cmds' = Append(cmds, Cmd("ps", <<>>, ok))
        /\ oldContainers' = IF ok THEN listServiceContainers(host, Service) ELSE <<>>
    /\ sweepIdx' = 1
    /\ spc' = "sweep"
    /\ UNCHANGED <<host, chan, closes, ret, pollErr>>
    /\ UNCHANGED <<inputVars, timeVars, cancelVars, orchVars, restVars, pollVars>>

\* if name == newName { continue }
SweepSkip ==
    /\ spc = "sweep"
    /\ sweepIdx <= Len(oldContainers)
    /\ oldContainers[sweepIdx] = Name(Service, tag)
    /\ sweepIdx' = sweepIdx + 1
    /\ UNCHANGED <<host, spc, chan, closes, cmds, ret, pollErr, oldContainers>>
    /\ UNCHANGED <<inputVars, timeVars, cancelVars, orchVars, restVars, pollVars>>

\* the loop index after a failed docker stop: continue
StopFailNext_break(i, n) == n + 1
StopFailNext(i, n) == i + 1

\* docker stop <name>; a failure is logged and the loop continues
SweepStop ==
    /\ spc = "sweep"
    /\ sweepIdx <= Len(oldContainers)
    /\ oldContainers[sweepIdx] # Name(Service, tag)
    /\ LET n == oldContainers[sweepIdx] IN
       \E out \in StopOutcomes(host, n) :
        /\ cmds' = Append(cmds, Cmd("stop", n, out.ok))
        /\ host' = out.host
        /\ IF out.ok
           THEN spc' = "sweep_rm" /\ UNCHANGED sweepIdx
           ELSE spc' = "sweep" /\ sweepIdx' = StopFailNext(sweepIdx, Len(oldContainers))
    /\ UNCHANGED <<chan, closes, ret, pollErr, oldContainers>>
    /\ UNCHANGED <<inputVars, timeVars, cancelVars, orchVars, restVars, pollVars>>

\* docker rm <name>; a failure is logged
SweepRm ==
    /\ spc = "sweep_rm"
    /\ LET n == oldContainers[sweepIdx] IN
       \E out \in RmOutcomes(host, n) :
        /\ cmds' = Append(cmds, Cmd("rm", n, out.ok))
        /\ host' = out.host
    /\ sweepIdx' = sweepIdx + 1
    /\ spc' = "sweep"
    /\ UNCHANGED <<chan, closes, ret, pollErr, oldContainers>>
    /\ UNCHANGED <<inputVars, timeVars, cancelVars, orchVars, restVars, pollVars>>

\* return nil
SweepEnd ==
    /\ spc = "sweep"
    /\ sweepIdx > Len(oldContainers)
    /\ Finish("nil")
    /\ UNCHANGED <<host, cmds, pollErr>>
    /\ UNCHANGED <<inputVars, timeVars, cancelVars, sweepVars, orchVars, restVars, pollVars>>

ServerNext ==
    \/ Dial
    \/ Pull
    \/ Rename
    \/ Start
    \/ StartRm
    \/ PollIP
    \/ ProbeEnd
    \/ Tick
    \/ SelCancel
    \/ SelDeadline
    \/ SelTick
    \/ Cancel
    \/ CleanupStop
    \/ CleanupRm
    \/ SweepList
    \/ SweepSkip
    \/ SweepStop
    \/ SweepRm
    \/ SweepEnd

ServerSpec == ServerInit /\ [][ServerNext]_vars

(***************************************************************************)
(* deployAllWithLog                                                        *)
(*                                                                         *)
(* Each deployAll call is followed through its deployService calls, in any *)
(* order; services are 1..MaxRun.                                          *)
(***************************************************************************)
MaxRun == 2

\* tags the run deploys, and tags recorded as previously deployed
NewTags == {"n1", "n2"}
PrevTags == {"", "o1", "o2"}

\* what the operator can type at the prompt; "EOF" is input that ends
\* before a line was read
PromptLines == {"EOF", "", "y", "Y", "n", "N", "s", "S", "q"}

\* m[k] of a Go map of strings: "" when the key is missing
Lookup(m, k) == IF k \in DOMAIN m THEN m[k] ELSE ""

\* the deployAll half of the model before it is called
OrchIdle ==
    /\ services = 0 /\ outcome = <<>> /\ mainpc = "idle" /\ spawned = 0
    /\ wg = 0 /\ gpc = <<>> /\ gerr = <<>> /\ results = <<>>
    /\ closed = FALSE /\ calls = <<>> /\ failed = <<>> /\ errs = <<>>

promptRollback(line) ==
    IF line = "EOF" THEN "rollbackNone"
    ELSE IF line \in {"", "Y", "y"} THEN "rollbackAll"
    ELSE IF line \in {"n", "N"} THEN "rollbackNone"
    ELSE IF line \in {"s", "S"} THEN "rollbackFailed"
    ELSE "rollbackNone"

LogInit ==
    /\ OrchIdle /\ ServerIdle /\ BlockIdle /\ CronIdle /\ PureIdle
    /\ svcs \in SUBSET (1..MaxRun)
    /\ tags \in [svcs -> NewTags]
    /\ \E known \in SUBSET svcs : previousTags \in [known -> PrevTags]
    /\ promptIn \in PromptLines
    /\ lpc = "first"
    /\ pending = svcs
    /\ deployCalls = {}
    /\ resultFailed = {}
    /\ choice = ""
    /\ rollbackServices = {}
    /\ rollbackTags = <<>>
    /\ skipped = {}
    /\ rbFailed = {}
    /\ logRet = <<"running">>

\* deployService(ctx, cfg, p, svc, env, tags[svc], oldTag, logf) of one pass
DeployCall(pass, s, t, o, ok) ==
    [pass |-> pass, service |-> s, tag |-> t, oldTag |-> o, ok |-> ok]

\* result, err := deployAll(ctx, cfg, p, services, env, tags, previousTags, ...):
\* the goroutine of service s
FirstDeploy(s) ==
    /\ lpc = "first"
    /\ s \in pending
    /\ \E ok \in BOOLEAN :
        /\ deployCalls' = deployCalls \cup
              {DeployCall(1, s, Lookup(tags, s), Lookup(previousTags, s), ok)}
        /\ resultFailed' = IF ok THEN resultFailed ELSE resultFailed \cup {s}
    /\ pending' = pending \ {s}
    /\ UNCHANGED <<svcs, tags, previousTags, promptIn, lpc, choice,
                   rollbackServices, rollbackTags, skipped, rbFailed, logRet>>
    /\ UNCHANGED <<orchVars, serverVars, blockVars, cronVars, pureVars>>

\* if len(result.failed) == 0 { ...; return nil }
FirstReturn ==
    /\ lpc = "first"
    /\ pending = {}
    /\ IF resultFailed = {}
       THEN logRet' = <<"nil">> /\ lpc' = "done"
       ELSE lpc' = "prompt" /\ UNCHANGED logRet
    /\ UNCHANGED <<svcs, tags, previousTags, promptIn, pending, deployCalls,
                   resultFailed, choice, rollbackServices, rollbackTags,
                   skipped, rbFailed>>
    /\ UNCHANGED <<orchVars, serverVars, blockVars, cronVars, pureVars>>

\* switch choice { case rollbackAll: ...; case rollbackFailed: ... }
ScopeServices_all(c, all, fl) == all
ScopeServices(c, all, fl) ==
    CASE c = "rollbackAll" -> all
      [] c = "rollbackFailed" -> fl
      [] OTHER -> {}

\* if prev, ok := previousTags[svc]; ok && prev != ""
HasPrevious_any(m, s) == s \in DOMAIN m
HasPrevious(m, s) == s \in DOMAIN m /\ m[s] # ""

\* choice := promptRollback(promptIn), the switch, the rollbackTags loop and
\* the rollbackTargets loop
Prompt ==
    /\ lpc = "prompt"
    /\ LET c == promptRollback(promptIn)
           rs == ScopeServices(c, svcs, resultFailed)
           kept == {s \in rs : HasPrevious(previousTags, s)}
       IN /\ choice' = c
          /\ IF c = "rollbackNone"
             THEN /\ logRet' = <<"nil">>
                  /\ lpc' = "done"
                  /\ UNCHANGED <<rollbackServices, rollbackTags, skipped, pending>>
             ELSE /\ rollbackServices' = rs
                  /\ rollbackTags' = [s \in kept |-> Lookup(previousTags, s)]
                  /\ skipped' = rs \ kept
                  /\ IF kept = {}
                     THEN /\ logRet' = <<"nil">>
                          /\ lpc' = "done"
                          /\ UNCHANGED pending
                     ELSE /\ lpc' = "rollback"
                          /\ pending' = kept
                          /\ UNCHANGED logRet
    /\ UNCHANGED <<svcs, tags, previousTags, promptIn, deployCalls,
                   resultFailed, rbFailed>>
    /\ UNCHANGED <<orchVars, serverVars, blockVars, cronVars, pureVars>>

\* the previousTags argument of the rollback deployAll
RollbackOld_prev(s) == Lookup(previousTags, s)
RollbackOld(s) == Lookup(tags, s)

\* rbResult, err := deployAll(ctx, cfg, p, rollbackTargets, env, rollbackTags,
\* tags, ...): the goroutine of service s
RollbackDeploy(s) ==
    /\ lpc = "rollback"
    /\ s \in pending
    /\ \E ok \in BOOLEAN :
        /\ deployCalls' = deployCalls \cup
              {DeployCall(2, s, Lookup(rollbackTags, s), RollbackOld(s), ok)}
        /\ rbFailed' = IF ok THEN rbFailed ELSE rbFailed \cup {s}
    /\ pending' = pending \ {s}
    /\ UNCHANGED <<svcs, tags, previousTags, promptIn, lpc, resultFailed,
                   choice, rollbackServices, rollbackTags, skipped, logRet>>
    /\ UNCHANGED <<orchVars, serverVars, blockVars, cronVars, pureVars>>

\* if len(rbResult.failed) > 0
RollbackErr_never(f) == FALSE
RollbackErr(f) == f # {}

\* return fmt.Errorf("rollback failed for: %v", rbResult.failed), or nil
RollbackReturn ==
    /\ lpc = "rollback"
    /\ pending = {}
    /\ logRet' = IF RollbackErr(rbFailed)
                 THEN <<"rollback failed for", rbFailed>>
                 ELSE <<"nil">>
    /\ lpc' = "done"
    /\ UNCHANGED <<svcs, tags, previousTags, promptIn, pending, deployCalls,
                   resultFailed, choice, rollbackServices, rollbackTags,
                   skipped, rbFailed>>
    /\ UNCHANGED <<orchVars, serverVars, blockVars, cronVars, pureVars>>

LogNext ==
    \/ \E s \in svcs : FirstDeploy(s)
    \/ FirstReturn
    \/ Prompt
    \/ \E s \in svcs : RollbackDeploy(s)
    \/ RollbackReturn

LogSpec == LogInit /\ [][LogNext]_vars

(***************************************************************************)
(* replaceCrontabBlock                                                     *)
(*                                                                         *)
(* A string is the sequence of its lines, what strings.Split(s, "\n")      *)
(* gives: "" is <<EmptyLine>>, "x\n" is <<<<"x">>, EmptyLine>>.  A line is  *)
(* the sequence of its pieces, the empty line the empty sequence.          *)
(***************************************************************************)
MaxLines == 5

BlockIDs == {"a-prod", "b-prod"}

EmptyLine == <<>>

\* beginMarker := "# hoist:begin " + blockID
beginMarker(id) == <<"# hoist:begin ", id>>

\* endMarker := "# hoist:end " + blockID
endMarker(id) == <<"# hoist:end ", id>>

\* the lines the documents are built from
DocLines ==
    {EmptyLine, <<"x">>} \cup {beginMarker(id) : id \in BlockIDs}
                         \cup {endMarker(id) : id \in BlockIDs}

\* every string of at most n lines over the set of lines L
RECURSIVE Strings(_, _)
Strings(L, n) ==
    IF n = 1 THEN {<<l>> : l \in L}
    ELSE LET shorter == Strings(L, n - 1) IN
         shorter \cup {Append(s, l) : s \in {t \in shorter : Len(t) = n - 1}, l \in L}

\* fmt.Sprintf("# hoist:begin %s\n# hoist:tag=%s\n# hoist:previous=%s\n%s\n# hoist:end %s", ...)
buildBlock(id, t, previous) ==
    << beginMarker(id),
       IF t = "" THEN <<"# hoist:tag=">> ELSE <<"# hoist:tag=", t>>,
       IF previous = "" THEN <<"# hoist:previous=">>
                        ELSE <<"# hoist:previous=", previous>>,
       <<"cron ", id, t>>,
       endMarker(id) >>

\* s + t
StrCat(s, t) ==
    SubSeq(s, 1, Len(s) - 1) \o <<s[Len(s)] \o t[1]>> \o Tail(t)

\* "\n"
Newline == <<EmptyLine, EmptyLine>>

\* strings.Join(lines, "\n")
Join(lines) == IF lines = <<>> THEN <<EmptyLine>> ELSE lines

\* strings.TrimRight(s, "\n")
RECURSIVE TrimRight(_)
TrimRight(s) ==
    IF Len(s) > 1 /\ s[Len(s)] = EmptyLine
    THEN TrimRight(SubSeq(s, 1, Len(s) - 1))
    ELSE s

\* if line == beginMarker { inside = true; ... }
EnterBlock_stay(inside) == inside
EnterBlock(inside) == TRUE

\* if !inside { result = append(result, line) }
KeepLine_all(inside) == TRUE
KeepLine(inside) == ~inside

\* the for loop of replaceCrontabBlock from line i on
RECURSIVE ReplaceLoop(_, _, _, _, _, _, _)
ReplaceLoop(lines, i, inside, replaced, result, id, nb) ==
    IF i > Len(lines) THEN [result |-> result, replaced |-> replaced]
    ELSE IF lines[i] = beginMarker(id)
         THEN ReplaceLoop(lines, i + 1, EnterBlock(inside), TRUE, result \o nb, id, nb)
    ELSE IF inside /\ lines[i] = endMarker(id)
         THEN ReplaceLoop(lines, i + 1, FALSE, replaced, result, id, nb)
    ELSE IF KeepLine(inside)
         THEN ReplaceLoop(lines, i + 1, inside, replaced, Append(result, lines[i]), id, nb)
    ELSE ReplaceLoop(lines, i + 1, inside, replaced, result, id, nb)

\* the separator put between the trimmed document and the appended block
Separator_blank == StrCat(Newline, Newline)
Separator == Newline

replaceCrontabBlock(crontabArg, id, nb) ==
    LET loop == ReplaceLoop(crontabArg, 1, FALSE, FALSE, <<>>, id, nb)
        trimmed == TrimRight(Join(loop.result))
    IN IF ~loop.replaced
       THEN IF trimmed = <<EmptyLine>>
            THEN StrCat(nb, Newline)
            ELSE StrCat(StrCat(StrCat(trimmed, Separator), nb), Newline)
       ELSE Join(loop.result)

\* the for loop of extractCrontabBlock from line i on
RECURSIVE ExtractLoop(_, _, _, _, _)
ExtractLoop(lines, i, inside, block, id) ==
    IF i > Len(lines) THEN [block |-> block, inside |-> inside]
    ELSE IF lines[i] = beginMarker(id)
         THEN ExtractLoop(lines, i + 1, TRUE, block, id)
    ELSE IF lines[i] = endMarker(id)
         THEN [block |-> block, inside |-> inside]
    ELSE IF inside
         THEN ExtractLoop(lines, i + 1, inside, Append(block, lines[i]), id)
    ELSE ExtractLoop(lines, i + 1, inside, block, id)

extractCrontabBlock(crontabArg, id) ==
    LET loop == ExtractLoop(crontabArg, 1, FALSE, <<>>, id)
    IN IF ~loop.inside THEN <<EmptyLine>> ELSE Join(loop.block)

BlockInit ==
    /\ OrchIdle /\ ServerIdle /\ LogIdle /\ CronIdle /\ PureIdle
    /\ doc \in Strings(DocLines, MaxLines)
    /\ blockID \in BlockIDs
    /\ \E t \in Tags : newBlock = buildBlock(blockID, t, "")
    /\ res = <<>>
    /\ res2 = <<>>
    /\ ext = <<>>
    /\ bpc = "input"

\* crontab = replaceCrontabBlock(crontab, blockID, newBlock)
Replace ==
    /\ bpc = "input"
    /\ res' = replaceCrontabBlock(doc, blockID, newBlock)
    /\ bpc' = "once"
    /\ UNCHANGED <<doc, blockID, newBlock, res2, ext>>
    /\ UNCHANGED <<orchVars, serverVars, logVars, cronVars, pureVars>>

\* the same call on the document the first call returned
ReplaceAgain ==
    /\ bpc = "once"
    /\ res2' = replaceCrontabBlock(res, blockID, newBlock)
    /\ bpc' = "twice"
    /\ UNCHANGED <<doc, blockID, newBlock, res, ext>>
    /\ UNCHANGED <<orchVars, serverVars, logVars, cronVars, pureVars>>

\* block := extractCrontabBlock(crontab, blockID)
Extract ==
    /\ bpc = "input"
    /\ ext' = extractCrontabBlock(doc, blockID)
    /\ bpc' = "extracted"
    /\ UNCHANGED <<doc, blockID, newBlock, res, res2>>
    /\ UNCHANGED <<orchVars, serverVars, logVars, cronVars, pureVars>>

BlockNext == Replace \/ ReplaceAgain \/ Extract

BlockSpec == BlockInit /\ [][BlockNext]_vars

(***************************************************************************)
(* cronjobDeployer.deploy                                                  *)
(*                                                                         *)
(* The node holds one crontab; rollouts run one after the other.           *)
(***************************************************************************)
MaxRollouts == 3

\* the for loop of parseCronfileTag from line i on: the rest of the first
\* line that starts with prefix
RECURSIVE ParseLoop(_, _, _)
ParseLoop(lines, i, prefix) ==
    IF i > Len(lines) THEN ""
    ELSE IF Len(lines[i]) >= 1 /\ lines[i][1] = prefix
         THEN IF Len(lines[i]) >= 2 THEN lines[i][2] ELSE ""
    ELSE ParseLoop(lines, i + 1, prefix)

parseCronfileTag(content, key) ==
    ParseLoop(content, 1, "# hoist:" \o key \o "=")

\* the crontabs the node can hold before the first rollout: none, a line
\* of the user's, a block of another rollout, both
InitialCrontabs ==
    { <<EmptyLine>>,
      <<<<"x">>, EmptyLine>>,
      buildBlock("b-prod", "t1", "") \o <<EmptyLine>>,
      <<<<"x">>>> \o buildBlock("a-prod", "t1", "") \o <<EmptyLine>>,
      buildBlock("a-prod", "t2", "t1") \o <<<<"x">>>> \o buildBlock("b-prod", "t1", "") }

CronInit ==
    /\ OrchIdle /\ ServerIdle /\ LogIdle /\ BlockIdle /\ PureIdle
    /\ remote \in InitialCrontabs
    /\ remote0 = remote
    /\ cpc = "off"
    /\ cronID = "" /\ cronTag = "" /\ cronOld = ""
    /\ crontab = <<>>
    /\ readOk = FALSE
    /\ cronRet = "running"
    /\ deployed = {}
    /\ cronCmds = <<>>
    /\ cronChan = "none"
    /\ cronCloses = 0
    /\ rollouts = 0
    /\ histCur = <<>> /\ histPrev = <<>>

\* d.deploy(ctx, service, env, tag, oldTag, logf) is called
CronStart ==
    /\ cpc \in {"off", "done"}
    /\ rollouts < MaxRollouts
    /\ rollouts' = rollouts + 1
    /\ cronID' \in BlockIDs
    /\ cronTag' \in Tags
    /\ cronOld' \in {""} \cup Tags
    /\ cpc' = "connect"
    /\ cronRet' = "running"
    /\ crontab' = <<>>
    /\ readOk' = FALSE
    /\ remote0' = remote
    /\ cronCmds' = <<>>
    /\ cronChan' = "none"
    /\ cronCloses' = 0
    /\ histCur' = <<>> /\ histPrev' = <<>>
    /\ UNCHANGED <<remote, deployed>>
    /\ UNCHANGED <<orchVars, serverVars, logVars, blockVars, pureVars>>

\* return <r> with the deferred client.close(); the locals are gone
CronFinish(r) ==
    /\ cronRet' = r
    /\ cpc' = "done"
    /\ crontab' = <<>>
    /\ cronChan' = "closed"
    /\ cronCloses' = cronCloses + 1

\* client, err := d.dial(addr); if err != nil { return ... }
CronDial ==
    /\ cpc = "connect"
    /\ \E ok \in BOOLEAN :
        IF ok
        THEN /\ cpc' = "pull"
             /\ cronChan' = "open"
             /\ UNCHANGED <<cronRet, crontab, cronCloses>>
        ELSE /\ cronRet' = "connecting"
             /\ cpc' = "done"
             /\ cronChan' = "refused"
             /\ UNCHANGED <<crontab, cronCloses>>
    /\ UNCHANGED <<remote, cronID, cronTag, cronOld, readOk, deployed, remote0,
                   cronCmds, rollouts, histCur, histPrev>>
    /\ UNCHANGED <<orchVars, serverVars, logVars, blockVars, pureVars>>

\* if _, err := client.run(ctx, pullCmd); err != nil { return ... }
CronAfterPull_ignore(ok) == "read"
CronAfterPull(ok) == IF ok THEN "read" ELSE "done"

\* docker pull <image>:<tag>
CronPull ==
    /\ cpc = "pull"
    /\ \E ok \in BOOLEAN :
        /\ cronCmds' = Append(cronCmds, [op |-> "pull", ok |-> ok])
        /\ IF CronAfterPull(ok) = "read"
           THEN cpc' = "read" /\ UNCHANGED <<cronRet, crontab, cronChan, cronCloses>>
           ELSE CronFinish("pulling image")
    /\ UNCHANGED <<remote, cronID, cronTag, cronOld, readOk, deployed, remote0,
                   rollouts, histCur, histPrev>>
    /\ UNCHANGED <<orchVars, serverVars, logVars, blockVars, pureVars>>

\* what client.run gives for crontab -l: the output without its trailing
\* newlines, "" when the command failed
ReadResult_output(ok, d) == TrimRight(d)
ReadResult(ok, d) == IF ok THEN TrimRight(d) ELSE <<EmptyLine>>

\* previous := oldTag; if previous == "" { ... parseCronfileTag(block, "tag") }
Previous_arg(o, c, id) == o
Previous(o, c, id) ==
    IF o # "" THEN o
    ELSE LET block == extractCrontabBlock(c, id)
         IN IF block # <<EmptyLine>> THEN parseCronfileTag(block, "tag") ELSE ""

\* crontab, _ := client.run(ctx, "crontab -l 2>/dev/null"); previous, newBlock;
\* crontab = replaceCrontabBlock(crontab, blockID, newBlock)
CronRead ==
    /\ cpc = "read"
    /\ \E ok \in BOOLEAN :
        LET c == ReadResult(ok, remote)
            nb == buildBlock(cronID, cronTag, Previous(cronOld, c, cronID))
        IN /\ (remote = <<EmptyLine>> => ~ok)
           /\ readOk' = ok
           /\ cronCmds' = Append(cronCmds, [op |-> "read", ok |-> ok])
           /\ crontab' = replaceCrontabBlock(c, cronID, nb)
    /\ cpc' = "write"
    /\ UNCHANGED <<remote, cronID, cronTag, cronOld, cronRet, deployed, remote0,
                   cronChan, cronCloses, rollouts, histCur, histPrev>>
    /\ UNCHANGED <<orchVars, serverVars, logVars, blockVars, pureVars>>

\* printf '%s' <crontab> | crontab -
CronWrite ==
    /\ cpc = "write"
    /\ \E ok \in BOOLEAN :
        /\ cronCmds' = Append(cronCmds, [op |-> "write", ok |-> ok])
        /\ IF ok
           THEN /\ remote' = crontab
                /\ deployed' = deployed \cup {cronID}
                /\ CronFinish("nil")
           ELSE /\ CronFinish("writing crontab")
                /\ UNCHANGED <<remote, deployed>>
    /\ UNCHANGED <<cronID, cronTag, cronOld, readOk, remote0, rollouts,
                   histCur, histPrev>>
    /\ UNCHANGED <<orchVars, serverVars, logVars, blockVars, pureVars>>

\* the tag of the key field in id's block of the crontab -l output: nothing
\* when the command failed or printed nothing, when the output holds no
\* block of id, or when the block has no such field
historyTag(ok, out, id, key) ==
    IF ~ok \/ out = <<EmptyLine>> THEN ""
    ELSE LET block == extractCrontabBlock(out, id)
         IN IF block = <<EmptyLine>> THEN "" ELSE parseCronfileTag(block, key)

\* p.current(ctx, service, env).Tag; the docker inspect that follows fills
\* Uptime and ExitCode only
current(ok, out, id) == historyTag(ok, out, id, "tag")

\* p.previous(ctx, service, env).Tag
previous(ok, out, id) == historyTag(ok, out, id, "previous")

\* the frame of a history query: it reads the crontab and writes nothing
HistoryFrame ==
    /\ UNCHANGED <<remote, cpc, cronID, cronTag, cronOld, crontab, readOk, cronRet,
                   deployed, remote0, cronCmds, cronChan, cronCloses, rollouts>>
    /\ UNCHANGED <<orchVars, serverVars, logVars, blockVars, pureVars>>

\* cronjobHistoryProvider.current, asked between two rollouts
HistoryCurrent ==
    /\ cpc = "done"
    /\ histCur = <<>>
    /\ \E id \in BlockIDs, ok \in BOOLEAN :
        histCur' = [id |-> id, ok |-> ok, tag |-> current(ok, remote, id)]
    /\ UNCHANGED histPrev
    /\ HistoryFrame

\* cronjobHistoryProvider.previous, asked between two rollouts
HistoryPrevious ==
    /\ cpc = "done"
    /\ histPrev = <<>>
    /\ \E id \in BlockIDs, ok \in BOOLEAN :
        histPrev' = [id |-> id, ok |-> ok, tag |-> previous(ok, remote, id)]
    /\ UNCHANGED histCur
    /\ HistoryFrame

CronNext ==
    \/ CronStart
    \/ CronDial
    \/ CronPull
    \/ CronRead
    \/ CronWrite
    \/ HistoryCurrent
    \/ HistoryPrevious

CronSpec == CronInit /\ [][CronNext]_vars

(***************************************************************************)
(* A rollout of either kind: the server rollout or the cronjob rollouts,   *)
(* each over the ssh channel it dialled                                    *)
(***************************************************************************)
ChannelInit == ServerInit \/ CronInit

ChannelNext == ServerNext \/ CronNext

ChannelSpec == ChannelInit /\ [][ChannelNext]_vars

(***************************************************************************)
(* mergedBuildsProvider.listBuilds                                         *)
(*                                                                         *)
(* A build is a record of its Tag and its Time; the time of a build is     *)
(* read off its tag (buildFromTag), so one tag has one time in every       *)
(* provider.  A provider's result is its builds, newest first, or an       *)
(* error.                                                                  *)
(***************************************************************************)
MaxBuildTime == 2
MaxPage == 3

BuildTags == {"x", "y", "z"}

\* m.providers, by index
ProviderIdx == {1, 2}

Descending(q) == \A i, j \in 1..Len(q) : i < j => q[i].Time >= q[j].Time

\* the listings a provider can return when its builds have these times
Listings(time) ==
    {[k \in 1..Len(q) |-> [Tag |-> q[k], Time |-> time[q[k]]]] :
        q \in {r \in UNION {[1..n -> BuildTags] : n \in 0..Cardinality(BuildTags)} :
                  /\ \A i, j \in 1..Len(r) : i # j => r[i] # r[j]
                  /\ \A i, j \in 1..Len(r) : i < j => time[r[i]] >= time[r[j]]}}

\* sort.Slice(all, Time.After): the order of builds of equal time is the
\* order the map iteration and the unstable sort leave them in
Sorted(S) ==
    {q \in [1..Cardinality(S) -> S] :
        /\ \A i, j \in 1..Len(q) : i # j => q[i] # q[j]
        /\ Descending(q)}

\* positions of tag t in the results rs, as <<provider, index>>
Occurrences(rs, t) ==
    {ik \in ProviderIdx \X (1..Cardinality(BuildTags)) :
        /\ ik[2] <= Len(rs[ik[1]].builds)
        /\ rs[ik[1]].builds[ik[2]].Tag = t}

\* counts[b.Tag]++
counts(rs, t) == Cardinality(Occurrences(rs, t))

\* byTag[b.Tag] = b: the record of the last occurrence
byTag(rs, t) ==
    LET last == CHOOSE ik \in Occurrences(rs, t) :
                    \A o \in Occurrences(rs, t) :
                        \/ o[1] < ik[1]
                        \/ (o[1] = ik[1] /\ o[2] <= ik[2])
    IN rs[last[1]].builds[last[2]]

InEvery_some(count, n) == count >= 1

\* count == len(m.providers)
InEvery(count, n) == count = n

\* all[offset:] and then all[:limit]
Slice(all, lim, off) ==
    IF off >= Len(all) THEN <<>>
    ELSE LET rest == SubSeq(all, off + 1, Len(all))
         IN IF lim < Len(rest) THEN SubSeq(rest, 1, lim) ELSE rest

\* the values listBuilds can return
listBuilds(rs, lim, off) ==
    IF \E i \in ProviderIdx : rs[i].err
    THEN {[builds |-> <<>>, err |-> TRUE]}
    ELSE LET all == {byTag(rs, t) :
                        t \in {u \in BuildTags :
                                  /\ counts(rs, u) > 0
                                  /\ InEvery(counts(rs, u), Cardinality(ProviderIdx))}}
         IN {[builds |-> Slice(a, lim, off), err |-> FALSE] : a \in Sorted(all)}

MergeInit ==
    /\ OrchIdle /\ ServerIdle /\ LogIdle /\ BlockIdle /\ CronIdle /\ TagIdle /\ MoreIdle
    /\ \E time \in [BuildTags -> 1..MaxBuildTime] :
           fetched \in [ProviderIdx ->
                           {[builds |-> l, err |-> FALSE] : l \in Listings(time)}
                           \cup {[builds |-> <<>>, err |-> TRUE]}]
    /\ limit \in 0..MaxPage
    /\ offset \in 0..MaxPage
    /\ page = <<>> /\ pageErr = FALSE /\ page2 = <<>> /\ pageAgain = <<>>
    /\ mpc = "ready"

\* listBuilds(ctx, limit, offset)
ListBuilds ==
    /\ mpc = "ready"
    /\ \E out \in listBuilds(fetched, limit, offset) :
           /\ page' = out.builds
           /\ pageErr' = out.err
    /\ mpc' = "listed"
    /\ UNCHANGED <<fetched, limit, offset, page2, pageAgain>>
    /\ UNCHANGED <<orchVars, serverVars, logVars, blockVars, cronVars, tagVars, moreVars>>

\* listBuilds(ctx, limit, offset + limit): the caller asks for the next page
NextPage ==
    /\ mpc = "listed"
    /\ ~pageErr
    /\ \E out \in listBuilds(fetched, limit, offset + limit) :
           page2' = out.builds
    /\ mpc' = "paged"
    /\ UNCHANGED <<fetched, limit, offset, page, pageErr, pageAgain>>
    /\ UNCHANGED <<orchVars, serverVars, logVars, blockVars, cronVars, tagVars, moreVars>>

\* listBuilds(ctx, limit, offset) once more: the providers return what they
\* returned to the first call
ListAgain ==
    /\ mpc = "listed"
    /\ ~pageErr
    /\ \E out \in listBuilds(fetched, limit, offset) :
           pageAgain' = out.builds
    /\ mpc' = "again"
    /\ UNCHANGED <<fetched, limit, offset, page, pageErr, page2>>
    /\ UNCHANGED <<orchVars, serverVars, logVars, blockVars, cronVars, tagVars, moreVars>>

MergeNext == ListBuilds \/ NextPage \/ ListAgain

MergeSpec == MergeInit /\ [][MergeNext]_vars

(***************************************************************************)
(* generateTag and parseTag                                                *)
(*                                                                         *)
(* A string is the sequence of its characters.  An int is held as its      *)
(* decimal digits without leading zeros, which is what %d prints and what  *)
(* strconv.Atoi reads back.  A time is the record of its UTC fields.       *)
(***************************************************************************)
MaxBranchLen == 3
MaxSegments == 4

Digit == <<"0", "1", "2", "3", "4", "5", "6", "7", "8", "9">>

DigitChars == {Digit[k] : k \in 1..10}

HexChars == DigitChars \cup {"a", "b", "c", "d", "e", "f"}

\* the characters sanitizeRe leaves alone: [a-zA-Z0-9.\-]
SafeChars ==
    DigitChars
    \cup {"a", "b", "c", "d", "e", "f", "g", "h", "i", "j", "k", "l", "m",
          "n", "o", "p", "q", "r", "s", "t", "u", "v", "w", "x", "y", "z"}
    \cup {"A", "B", "C", "D", "E", "F", "G", "H", "I", "J", "K", "L", "M",
          "N", "O", "P", "Q", "R", "S", "T", "U", "V", "W", "X", "Y", "Z"}
    \cup {".", "-"}

DigitVal(c) == CHOOSE n \in 0..9 : Digit[n + 1] = c

RECURSIVE Val(_)
\* the number a short digit string denotes
Val(d) == IF d = <<>> THEN 0 ELSE 10 * Val(SubSeq(d, 1, Len(d) - 1)) + DigitVal(d[Len(d)])

RECURSIVE Pow10(_)
Pow10(n) == IF n = 0 THEN 1 ELSE 10 * Pow10(n - 1)

\* n in w digits, zero padded
Pad(n, w) == [k \in 1..w |-> Digit[((n \div Pow10(w - k)) % 10) + 1]]

AllDigits(d) == d # <<>> /\ \A k \in 1..Len(d) : d[k] \in DigitChars

\* sanitizeBranch
sanitizeBranch(b) ==
    LET r == [k \in 1..Len(b) |-> IF b[k] \in SafeChars THEN b[k] ELSE "-"]
    IN IF Len(r) > 40 THEN SubSeq(r, 1, 40) ELSE r

\* ts.UTC().Format("20060102150405")
Format(ts) ==
    Pad(ts.year, 4) \o Pad(ts.month, 2) \o Pad(ts.day, 2)
        \o Pad(ts.hour, 2) \o Pad(ts.minute, 2) \o Pad(ts.second, 2)

\* attempt >= 2
AtLeastTwo(a) == Len(a) > 1 \/ a[1] \notin {"0", "1"}

generateTag(branch, sha, ts, attempt) ==
    LET b == sanitizeBranch(branch)
        sh == IF Len(sha) > 7 THEN SubSeq(sha, 1, 7) ELSE sha
        t == b \o <<"-">> \o sh \o <<"-">> \o Format(ts)
    IN IF AtLeastTwo(attempt) THEN t \o <<"-">> \o attempt ELSE t

\* the positions of the separator
Hyphens(str) == {i \in 1..Len(str) : str[i] = "-"}

NthHyphen(str, k) ==
    CHOOSE i \in Hyphens(str) : Cardinality({j \in Hyphens(str) : j < i}) = k - 1

\* strings.Split(s, "-")
Split(str) ==
    LET n == Cardinality(Hyphens(str)) + 1
    IN [k \in 1..n |->
           SubSeq(str,
                  IF k = 1 THEN 1 ELSE NthHyphen(str, k - 1) + 1,
                  IF k = n THEN Len(str) ELSE NthHyphen(str, k) - 1)]

RECURSIVE JoinParts(_)
\* strings.Join(parts, "-")
JoinParts(parts) ==
    IF parts = <<>> THEN <<>>
    ELSE IF Len(parts) = 1 THEN parts[1]
    ELSE JoinParts(SubSeq(parts, 1, Len(parts) - 1)) \o <<"-">> \o parts[Len(parts)]

\* the largest int, in decimal
MaxIntDigits ==
    <<"9", "2", "2", "3", "3", "7", "2", "0", "3", "6", "8", "5", "4", "7", "7",
      "5", "8", "0", "7">>

\* the digits after the leading zeros
Canonical(d) ==
    IF \A k \in 1..Len(d) : d[k] = "0" THEN <<"0">>
    ELSE SubSeq(d, CHOOSE k \in 1..Len(d) :
                          d[k] # "0" /\ \A j \in 1..(k - 1) : d[j] = "0",
                Len(d))

\* strconv.Atoi on a string of digits: the int and whether it fits
Atoi(d) ==
    LET c == Canonical(d)
        over == \/ Len(c) > Len(MaxIntDigits)
                \/ /\ Len(c) = Len(MaxIntDigits)
                   /\ \E i \in 1..Len(c) :
                          /\ \A j \in 1..(i - 1) : c[j] = MaxIntDigits[j]
                          /\ DigitVal(c[i]) > DigitVal(MaxIntDigits[i])
    IN [value |-> IF over THEN <<"0">> ELSE c, ok |-> ~over]

DaysIn(month, year) ==
    IF month = 2
    THEN IF year % 4 = 0 /\ (year % 100 # 0 \/ year % 400 = 0) THEN 29 ELSE 28
    ELSE IF month \in {4, 6, 9, 11} THEN 30 ELSE 31

\* time.Parse("20060102150405", s) on fourteen digits
ParseTime(str) ==
    LET y == Val(SubSeq(str, 1, 4))
        mo == Val(SubSeq(str, 5, 6))
        d == Val(SubSeq(str, 7, 8))
        h == Val(SubSeq(str, 9, 10))
        mi == Val(SubSeq(str, 11, 12))
        sec == Val(SubSeq(str, 13, 14))
    IN [time |-> [year |-> y, month |-> mo, day |-> d, hour |-> h,
                  minute |-> mi, second |-> sec, ns |-> 0],
        ok |-> /\ mo \in 1..12
               /\ d >= 1 /\ d <= DaysIn(mo, y)
               /\ h < 24 /\ mi < 60 /\ sec < 60]

\* time.Time{}
ZeroTime ==
    [year |-> 1, month |-> 1, day |-> 1, hour |-> 0, minute |-> 0,
     second |-> 0, ns |-> 0]

\* tag{}
ZeroTag == [Branch |-> <<>>, SHA |-> <<>>, Time |-> ZeroTime, Attempt |-> <<"0">>]

Failure(e) == [tag |-> ZeroTag, err |-> e]

IsAttempt_digits(last) == AllDigits(last)

\* digitRe.MatchString(last) && len(last) != 14
IsAttempt(last) == AllDigits(last) /\ Len(last) # 14

\* timestampRe.MatchString(tsStr)
TimestampOk(tsStr) == Len(tsStr) = 14 /\ AllDigits(tsStr)

ShaOk_any(shaStr) == shaStr = shaStr

\* shaRe.MatchString(shaStr)
ShaOk(shaStr) == Len(shaStr) = 7 /\ \A k \in 1..7 : shaStr[k] \in HexChars

\* parseTag from the timestamp segment on
parseRest(parts, attempt) ==
    LET tsStr == parts[Len(parts)]
        shaStr == parts[Len(parts) - 1]
        branchParts == SubSeq(parts, 1, Len(parts) - 2)
    IN IF ~TimestampOk(tsStr) THEN Failure("invalid timestamp")
       ELSE IF ~ParseTime(tsStr).ok THEN Failure("invalid timestamp")
       ELSE IF ~ShaOk(shaStr) THEN Failure("invalid SHA")
       ELSE IF Len(branchParts) = 0 THEN Failure("empty branch in tag")
       ELSE [tag |-> [Branch |-> JoinParts(branchParts), SHA |-> shaStr,
                      Time |-> ParseTime(tsStr).time, Attempt |-> attempt],
             err |-> "nil"]

parseTag(str) ==
    IF str = <<>> THEN Failure("empty tag string")
    ELSE LET parts == Split(str)
             last == parts[Len(parts)]
         IN IF Len(parts) < 3 THEN Failure("tag too short")
            ELSE IF IsAttempt(last)
            THEN IF ~Atoi(last).ok THEN Failure("invalid attempt")
                 ELSE IF Len(parts) - 1 < 3
                 THEN Failure("tag too short after removing attempt")
                 ELSE parseRest(SubSeq(parts, 1, Len(parts) - 1), Atoi(last).value)
            ELSE parseRest(parts, <<"0">>)

\* branches: every short string of these characters, and two of more than
\* forty characters
BranchAlphabet == {"a", "7", "-", "/"}

Branches ==
    UNION {[1..n -> BranchAlphabet] : n \in 0..MaxBranchLen}
    \cup {[k \in 1..41 |-> IF k = 40 THEN "/" ELSE "b"],
          [k \in 1..45 |-> IF k % 5 = 0 THEN "-" ELSE "c"]}

\* commit hashes, and two strings that are not
Shas ==
    {<<"a", "b", "c", "1", "2", "3", "4">>,
     <<"1", "2", "3", "4", "5", "6", "7", "8", "9">>,
     <<"a", "b", "c", "1", "2">>,
     <<"g", "h", "i", "j", "k", "l", "m">>}

Times ==
    [year : {5, 2026}, month : {2, 12}, day : {1, 28}, hour : {23},
     minute : {0}, second : {59}, ns : {0, 1}]

Attempts ==
    {<<"0">>, <<"1">>, <<"2">>, <<"1", "2">>,
     <<"1", "0", "0", "0", "0", "0", "0", "0", "0", "0", "0", "0", "0", "0">>}

\* the segments raw strings are made of
Segments ==
    {<<>>,
     <<"m", "a", "i", "n">>,
     <<"2">>,
     <<"1">>,
     <<"a", "b", "c", "1", "2", "3", "4">>,
     <<"a", "b", "c", "1", "2">>,
     <<"A", "B", "C", "1", "2", "3", "4">>,
     <<"2", "0", "2", "6", "0", "2", "1", "3", "1", "1", "0", "0", "0", "0">>,
     <<"2", "0", "2", "6", "0", "2", "3", "0", "1", "1", "0", "0", "0", "0">>,
     <<"2", "0", "2", "6", "0", "2", "1", "3", "1", "1", "0", "0", "0">>,
     [k \in 1..20 |-> "9"]}

RawStrings == {JoinParts(q) : q \in UNION {[1..n -> Segments] : n \in 1..MaxSegments}}

TagInit ==
    /\ OrchIdle /\ ServerIdle /\ LogIdle /\ BlockIdle /\ CronIdle /\ MergeIdle /\ MoreIdle
    /\ parsed = <<>>
    /\ rebuilt = <<>>
    /\ \/ /\ tpc = "input"
          /\ genBranch \in Branches
          /\ genSha \in Shas
          /\ genTime \in Times
          /\ genAttempt \in Attempts
          /\ tagStr = <<>>
       \/ /\ tpc = "raw"
          /\ genBranch = <<>> /\ genSha = <<>> /\ genTime = <<>> /\ genAttempt = <<>>
          /\ tagStr \in RawStrings

\* generateTag(branch, sha, ts, attempt)
Generate ==
    /\ tpc = "input"
    /\ tagStr' = generateTag(genBranch, genSha, genTime, genAttempt)
    /\ tpc' = "generated"
    /\ UNCHANGED <<genBranch, genSha, genTime, genAttempt, parsed, rebuilt>>
    /\ UNCHANGED <<orchVars, serverVars, logVars, blockVars, cronVars, mergeVars, moreVars>>

\* parseTag(generated)
ParseGenerated ==
    /\ tpc = "generated"
    /\ parsed' = parseTag(tagStr)
    /\ tpc' = "roundtrip"
    /\ UNCHANGED <<genBranch, genSha, genTime, genAttempt, tagStr, rebuilt>>
    /\ UNCHANGED <<orchVars, serverVars, logVars, blockVars, cronVars, mergeVars, moreVars>>

\* parseTag(s) on a string from elsewhere
ParseRaw ==
    /\ tpc = "raw"
    /\ parsed' = parseTag(tagStr)
    /\ tpc' = "parsed"
    /\ UNCHANGED <<genBranch, genSha, genTime, genAttempt, tagStr, rebuilt>>
    /\ UNCHANGED <<orchVars, serverVars, logVars, blockVars, cronVars, mergeVars, moreVars>>

\* Tag: generateTag(t.Branch, t.SHA, t.Time, t.Attempt)
buildFromTag(t) == generateTag(t.Branch, t.SHA, t.Time, t.Attempt)

\* t, err := parseTag(tagStr); if err != nil { continue };
\* all = append(all, buildFromTag(t))
BuildFromTag ==
    /\ tpc = "parsed"
    /\ parsed.err = "nil"
    /\ rebuilt' = buildFromTag(parsed.tag)
    /\ tpc' = "listed"
    /\ UNCHANGED <<genBranch, genSha, genTime, genAttempt, tagStr, parsed>>
    /\ UNCHANGED <<orchVars, serverVars, logVars, blockVars, cronVars, mergeVars, moreVars>>

TagNext == Generate \/ ParseGenerated \/ ParseRaw \/ BuildFromTag

TagSpec == TagInit /\ [][TagNext]_vars

(***************************************************************************)
(* staticDeployer.deploy                                                   *)
(*                                                                         *)
(* The bucket holds the two marker objects, the objects of the build under *)
(* builds/<tag>/ (keys 1..stKeys) and the objects copied to current/.      *)
(***************************************************************************)
MaxKeys == 2

StaticTags == {"t1", "t2"}

\* the groups a static rollout leaves alone
StaticFrame ==
    UNCHANGED <<orchVars, serverVars, logVars, blockVars, cronVars, mergeVars, tagVars,
                pairVars>>

StaticInit ==
    /\ OrchIdle /\ ServerIdle /\ LogIdle /\ BlockIdle /\ CronIdle
    /\ MergeIdle /\ TagIdle /\ PairIdle
    /\ stTag \in StaticTags
    /\ stOld \in {""} \cup StaticTags
    /\ stKeys \in 0..MaxKeys
    /\ stMarkers \in [previous : {""} \cup StaticTags, current : {""} \cup StaticTags]
    /\ stMarkers0 = stMarkers
    /\ stpc = "put_previous"
    /\ stPuts = <<>> /\ stPending = {} /\ stCopied = {} /\ stFirstErr = FALSE
    /\ stInval = 0 /\ stRet = "running"

\* return <r>
StaticReturn(r) ==
    /\ stRet' = r
    /\ stpc' = "done"

\* if oldTag != "" { d.putMarker(ctx, bucket, "previous-tag", oldTag) }
PutPrevious ==
    /\ stpc = "put_previous"
    /\ IF stOld # ""
       THEN \E ok \in BOOLEAN :
               /\ stPuts' = Append(stPuts, [key |-> "previous-tag", value |-> stOld, ok |-> ok])
               /\ IF ok
                  THEN /\ stMarkers' = [stMarkers EXCEPT !.previous = stOld]
                       /\ stpc' = "list"
                       /\ UNCHANGED stRet
                  ELSE /\ StaticReturn("writing previous-tag marker")
                       /\ UNCHANGED stMarkers
       ELSE /\ stpc' = "list"
            /\ UNCHANGED <<stPuts, stMarkers, stRet>>
    /\ UNCHANGED <<stTag, stOld, stKeys, stMarkers0, stPending, stCopied, stFirstErr, stInval>>
    /\ StaticFrame

\* keys, err := d.listBuildObjects(ctx, bucket, tag); the two early returns
ListObjects ==
    /\ stpc = "list"
    /\ \E ok \in BOOLEAN :
        IF ~ok THEN StaticReturn("listing build objects") /\ UNCHANGED stPending
        ELSE IF stKeys = 0 THEN StaticReturn("build not found") /\ UNCHANGED stPending
        ELSE /\ stpc' = "copy"
             /\ stPending' = 1..stKeys
             /\ UNCHANGED stRet
    /\ UNCHANGED <<stTag, stOld, stKeys, stPuts, stMarkers, stMarkers0, stCopied,
                   stFirstErr, stInval>>
    /\ StaticFrame

\* one goroutine of copyObjects: d.s3.CopyObject for its key
CopyObject(k) ==
    /\ stpc = "copy"
    /\ k \in stPending
    /\ stPending' = stPending \ {k}
    /\ \E ok \in BOOLEAN :
        /\ stCopied' = IF ok THEN stCopied \cup {k} ELSE stCopied
        /\ stFirstErr' = (stFirstErr \/ ~ok)
    /\ UNCHANGED <<stTag, stOld, stKeys, stpc, stPuts, stMarkers, stMarkers0, stInval, stRet>>
    /\ StaticFrame

\* wg.Wait(); return firstErr; if err != nil { return err }
CopyWait ==
    /\ stpc = "copy"
    /\ stPending = {}
    /\ IF stFirstErr
       THEN StaticReturn("copying")
       ELSE stpc' = "put_current" /\ UNCHANGED stRet
    /\ UNCHANGED <<stTag, stOld, stKeys, stPuts, stMarkers, stMarkers0, stPending,
                   stCopied, stFirstErr, stInval>>
    /\ StaticFrame

\* d.putMarker(ctx, bucket, "current-tag", tag)
PutCurrent ==
    /\ stpc = "put_current"
    /\ \E ok \in BOOLEAN :
        /\ stPuts' = Append(stPuts, [key |-> "current-tag", value |-> stTag, ok |-> ok])
        /\ IF ok
           THEN /\ stMarkers' = [stMarkers EXCEPT !.current = stTag]
                /\ stpc' = "invalidate"
                /\ UNCHANGED stRet
           ELSE /\ StaticReturn("writing current-tag marker")
                /\ UNCHANGED stMarkers
    /\ UNCHANGED <<stTag, stOld, stKeys, stMarkers0, stPending, stCopied, stFirstErr, stInval>>
    /\ StaticFrame

\* d.cloudfront.CreateInvalidation(...); return nil
Invalidate ==
    /\ stpc = "invalidate"
    /\ stInval' = stInval + 1
    /\ \E ok \in BOOLEAN :
        StaticReturn(IF ok THEN "nil" ELSE "invalidating CloudFront")
    /\ UNCHANGED <<stTag, stOld, stKeys, stPuts, stMarkers, stMarkers0, stPending,
                   stCopied, stFirstErr>>
    /\ StaticFrame

StaticNext ==
    \/ PutPrevious
    \/ ListObjects
    \/ \E k \in 1..MaxKeys : CopyObject(k)
    \/ CopyWait
    \/ PutCurrent
    \/ Invalidate

StaticSpec == StaticInit /\ [][StaticNext]_vars

(***************************************************************************)
(* Two cronjob rollouts of one deployAll                                   *)
(*                                                                         *)
(* deployAll starts one goroutine per service; two cronjob services on one *)
(* node each dial their own channel and read and write the one crontab of  *)
(* that node.                                                              *)
(***************************************************************************)
\* the two goroutines and the blockID of each
PairTasks == {1, 2}

PairID(i) == IF i = 1 THEN "a-prod" ELSE "b-prod"

PairFrame ==
    UNCHANGED <<orchVars, serverVars, logVars, blockVars, cronVars, mergeVars, tagVars,
                staticVars>>

PairInit ==
    /\ OrchIdle /\ ServerIdle /\ LogIdle /\ BlockIdle /\ CronIdle
    /\ MergeIdle /\ TagIdle /\ StaticIdle
    /\ pairRemote \in InitialCrontabs
    /\ pairTag \in [PairTasks -> Tags]
    /\ pairPc = [i \in PairTasks |-> "connect"]
    /\ pairTab = [i \in PairTasks |-> <<>>]
    /\ pairRead = [i \in PairTasks |-> FALSE]
    /\ pairRet = [i \in PairTasks |-> "running"]

\* d.dial(addr) and docker pull, with their early returns
PairPull(i) ==
    /\ pairPc[i] = "connect"
    /\ \E r \in {"nil", "connecting", "pulling image"} :
        IF r = "nil"
        THEN /\ pairPc' = [pairPc EXCEPT ![i] = "read"]
             /\ UNCHANGED pairRet
        ELSE /\ pairPc' = [pairPc EXCEPT ![i] = "done"]
             /\ pairRet' = [pairRet EXCEPT ![i] = r]
    /\ UNCHANGED <<pairRemote, pairTag, pairTab, pairRead>>
    /\ PairFrame

\* crontab -l, previous, newBlock, replaceCrontabBlock; oldTag is the tag
\* the caller found deployed, here none
PairReadStep(i) ==
    /\ pairPc[i] = "read"
    /\ \E ok \in BOOLEAN :
        LET c == ReadResult(ok, pairRemote)
            nb == buildBlock(PairID(i), pairTag[i], Previous("", c, PairID(i)))
        IN /\ (pairRemote = <<EmptyLine>> => ~ok)
           /\ pairRead' = [pairRead EXCEPT ![i] = ok]
           /\ pairTab' = [pairTab EXCEPT ![i] = replaceCrontabBlock(c, PairID(i), nb)]
    /\ pairPc' = [pairPc EXCEPT ![i] = "write"]
    /\ UNCHANGED <<pairRemote, pairTag, pairRet>>
    /\ PairFrame

\* printf '%s' <crontab> | crontab -
PairWrite(i) ==
    /\ pairPc[i] = "write"
    /\ \E ok \in BOOLEAN :
        /\ pairRemote' = IF ok THEN pairTab[i] ELSE pairRemote
        /\ pairRet' = [pairRet EXCEPT ![i] = IF ok THEN "nil" ELSE "writing crontab"]
    /\ pairPc' = [pairPc EXCEPT ![i] = "done"]
    /\ UNCHANGED <<pairTag, pairTab, pairRead>>
    /\ PairFrame

PairNext ==
    \E i \in PairTasks :
        \/ PairPull(i)
        \/ PairReadStep(i)
        \/ PairWrite(i)

PairSpec == PairInit /\ [][PairNext]_vars

(***************************************************************************)
(* Claims about deployAll                                                  *)
(***************************************************************************)
Range(q) == {q[i] : i \in 1..Len(q)}

Returned == mainpc = "returned"

\* C1: when deployAll has returned, every service's deploy was invoked exactly
\* once, failed lists exactly the services whose deploy returned an error,
\* each once, and errors has exactly those services as keys, each mapped to
\* the error its own deploy returned.
C1_Aggregation ==
    Returned =>
        /\ \A s \in Svc : calls[s] = 1
        /\ Range(failed) = {s \in Svc : outcome[s] # 0}
        /\ Len(failed) = Cardinality({s \in Svc : outcome[s] # 0})
        /\ \A s \in Svc : errs[s] = outcome[s]

\* three services, exactly one of which failed, and deployAll has returned
C1_Witness ==
    /\ Returned
    /\ services = 3
    /\ Cardinality({s \in Svc : outcome[s] # 0}) = 1
    /\ Len(failed) = 1

AllTasksDone == \A s \in Svc : gpc[s] = "done"

\* C2: deployAll returns only after every service's task has finished, a
\* task whose deploy failed never keeps another task from starting and
\* finishing, no task blocks on reporting its result, and once all tasks
\* have finished deployAll returns.
C2_WaitForAll ==
    /\ [](Returned => AllTasksDone)
    /\ [](\A s \in Svc : gpc[s] = "send" => (Len(results) < services /\ ~closed))
    /\ [](\A s \in Svc : (mainpc # "spawn" /\ gpc[s] = "deploy") => ENABLED TaskDeploy(s))
    /\ ((mainpc # "spawn" /\ AllTasksDone) ~> Returned)

\* every service failed and deployAll has returned with all tasks finished
C2_Witness ==
    /\ Returned
    /\ services >= 2
    /\ \A s \in Svc : outcome[s] # 0 /\ gpc[s] = "done"

(***************************************************************************)
(* Claims about the server rollout                                         *)
(***************************************************************************)
CmdIdx == 1..Len(cmds)
OpIdx(op) == {i \in CmdIdx : cmds[i].op = op}
Targets(op) == {cmds[i].target : i \in OpIdx(op)}
Deployed == spc = "done"
RunOk == \E i \in OpIdx("run") : cmds[i].ok
HealthOkBefore(i) == \E j \in OpIdx("curl") : j < i /\ cmds[j].ok

\* the instances that were there before this rollout
OldIds == {c.id : c \in host0}
OldPresent == {c.id : c \in {d \in host0 : d.owner = Service}}
StoppedOk(id) == \E i \in OpIdx("stop") : cmds[i].target = id /\ cmds[i].ok

\* the old instances that were running when the rollout began
OldRunning == {c.id : c \in {d \in host0 : d.owner = Service /\ d.running}}

\* C3: when the new instance started and the health poll ended without Ok,
\* a stop and a remove are issued for the new instance, every stop and
\* remove of the rollout is aimed at the new instance, and the rollout
\* returns "healthcheck failed" whatever the cleanup commands returned.
C3_HealthFailureCleanup ==
    (RunOk /\ pollErr \notin {"none", "ok"}) =>
        /\ \A i \in OpIdx("stop") \cup OpIdx("rm") : cmds[i].target = "new"
        /\ Deployed =>
            /\ ret = "healthcheck failed"
            /\ "new" \in Targets("stop")
            /\ "new" \in Targets("rm")

\* the poll timed out over a running previous instance, the stop of the
\* new instance failed, and the rollout has returned
C3_Witness ==
    /\ Deployed
    /\ ret = "healthcheck failed"
    /\ pollErr = "timed out"
    /\ oldTag \notin {"", tag}
    /\ \E i \in OpIdx("stop") : ~cmds[i].ok
    /\ \E c \in host : c.id = "prev" /\ c.running

Stage(op) ==
    CASE op = "pull" -> 1
      [] op = "rename" -> 2
      [] op = "run" -> 3
      [] op \in {"inspect", "curl"} -> 4
      [] op \in {"ps", "stop", "rm"} -> 5

\* the remote commands are issued in the order of their stages
C5_StageOrder ==
    /\ cmds # <<>> => chan \in {"open", "closed"}
    /\ \A i, j \in CmdIdx : i < j => Stage(cmds[i].op) <= Stage(cmds[j].op)
    /\ \A op \in {"pull", "rename", "run", "inspect", "ps"} : Cardinality(OpIdx(op)) <= 1

\* C5: the remote commands are issued in the order connect, pull, rename,
\* start, health poll, cleanup, and no stop or remove is issued for an
\* instance that was there before the rollout until a probe of the new
\* instance has succeeded.
C5_Order ==
    /\ C5_StageOrder
    /\ \A i \in OpIdx("stop") \cup OpIdx("rm") :
        cmds[i].target \in OldIds => HealthOkBefore(i)

\* C6: when docker run fails the rollout returns "starting container", a
\* remove is issued for the new container's name, and the instance that was
\* renamed aside has its original name again.
C6_StartFailure ==
    (Deployed /\ \E i \in OpIdx("run") : ~cmds[i].ok) =>
        /\ ret = "starting container"
        /\ \E i \in OpIdx("rm") : cmds[i].name = containerName
        /\ (\E i \in OpIdx("rename") : cmds[i].ok) =>
                Find(host, Name(Service, oldTag)) = "prev"

C8_DialFailure ==
    chan = "refused" =>
        /\ Deployed
        /\ ret = "connecting"
        /\ cmds = <<>>
        /\ closes = 0
        /\ host = host0

\* the dial failed over a running previous instance
C8_Witness ==
    /\ ret = "connecting"
    /\ chan = "refused"
    /\ \E c \in host : c.id = "prev"

\* the probes of the poll, oldest first, as indices of cmds
Curls == OpIdx("curl")
CurlsBefore(i) == Cardinality({j \in Curls : j < i})

\* C9: no probe is issued after a probe that succeeded; the first probe is
\* issued at once, the k-th later probe has taken one tick of the ticker
\* and is issued no earlier than k intervals after the first; when poll
\* returns Ok it has issued exactly (number of failed probes) + 1 probes,
\* the last of which is the one that succeeded.
C9_PollSuccess ==
    /\ \A i, j \in Curls : i < j => ~cmds[i].ok
    /\ \A i \in Curls : cmds[i].ok => pollErr = "ok"
    /\ \A i \in Curls : \A k \in OpIdx("inspect") :
            cmds[i].at >= cmds[k].at + CurlsBefore(i) * interval
    /\ \A i \in Curls : CurlsBefore(i) = 0 =>
            \A k \in OpIdx("inspect") : cmds[i].at = cmds[k].at
    /\ Cardinality(Curls) \in {ticksTaken, ticksTaken + 1}
    /\ pollErr = "ok" =>
        /\ Cardinality(Curls) = ticksTaken + 1
        /\ Cardinality({i \in Curls : ~cmds[i].ok}) = Cardinality(Curls) - 1
        /\ spc = "sweep_list" => (cmds[Len(cmds)].op = "curl" /\ cmds[Len(cmds)].ok)

\* the probe failed twice and then succeeded
C9_Witness ==
    /\ pollErr = "ok"
    /\ ~cancelled
    /\ Cardinality(Curls) = 3
    /\ ticksTaken = 2

\* C10: when every probe fails and nobody cancels, poll returns Timeout, no
\* later than one interval after the deadline.
C10_Timeout ==
    (spc = "hc_failed" /\ ~cancelled /\ Curls # {}) =>
        /\ pollErr = "timed out"
        /\ now <= deadlineAt + interval

\* C11: when ctx is cancelled while pollHealthcheck is running, before the
\* deadline and so before any probe has succeeded, poll returns the
\* cancellation error, neither Ok nor Timeout, no later than one interval
\* after the cancellation.
C11_Cancelled ==
    (cancelInPoll /\ cancelAt < deadlineAt /\ pollErr # "none") =>
        /\ pollErr = "canceled"
        /\ now <= cancelAt + interval

\* C12: a rollout that was in flight when ctx was cancelled terminates with
\* an error, which deployAll reports in failed.
C12_CancelFails ==
    (cancelled /\ Deployed) => ret # "nil"

(***************************************************************************)
(* Claims about deployAllWithLog                                           *)
(***************************************************************************)
\* the deployService calls of one pass
CallsOf(pass) == {c \in deployCalls : c.pass = pass}

\* C13: every deploy call of the rollback pass for a service S carries
\* tag = previousTags[S] and oldTag = tags[S], the swapped pair of the call
\* the failed run made for S; and once the rollback pass is over every
\* selected service with a non-empty previous tag has been called so.
C13_SwappedPair ==
    /\ \A c \in CallsOf(2) :
        /\ c.service \in DOMAIN previousTags
        /\ c.tag = previousTags[c.service]
        /\ c.tag # ""
        /\ c.oldTag = tags[c.service]
        /\ \E f \in CallsOf(1) :
            f.service = c.service /\ f.tag = c.oldTag /\ f.oldTag = c.tag
    /\ (lpc = "done" /\ choice # "rollbackNone") =>
        \A s \in rollbackServices :
            (s \in DOMAIN previousTags /\ previousTags[s] # "") =>
                \E c \in CallsOf(2) : c.service = s

\* two services were rolled back, each to its own previous tag
C13_Witness ==
    /\ lpc = "done"
    /\ Cardinality(CallsOf(2)) = 2
    /\ \E c, d \in CallsOf(2) : c.tag # d.tag /\ c.oldTag # d.oldTag

\* a service without a previous tag: the key is missing or the tag is empty
NoPrevious(s) == s \notin DOMAIN previousTags \/ previousTags[s] = ""

\* C14: a service whose previous tag is empty or unknown gets no deploy call
\* in the rollback pass and is never among the rollback failures; when the
\* chosen scope selects it, it is reported as skipped.
C14_RollbackSkip ==
    \A s \in svcs : NoPrevious(s) =>
        /\ \A c \in CallsOf(2) : c.service # s
        /\ s \notin DOMAIN rollbackTags
        /\ s \notin rbFailed
        /\ (Len(logRet) = 2 => s \notin logRet[2])
        /\ s \in rollbackServices => s \in skipped

\* one service was skipped while the other was rolled back
C14_Witness ==
    /\ lpc = "done"
    /\ \E s \in rollbackServices : NoPrevious(s) /\ s \in skipped
    /\ CallsOf(2) # {}

\* the prompt has been answered
Prompted == lpc \in {"rollback", "done"} /\ resultFailed # {}

\* C15: after a run with a failed service, scope all selects every service
\* of the run, scope failed-only exactly the failed ones, and scope none
\* makes no further deploy call; no deploy call of the rollback pass is for
\* a service outside the selection.
C15_Scope ==
    /\ lpc \in {"first", "prompt"} => CallsOf(2) = {}
    /\ Prompted =>
        /\ choice = promptRollback(promptIn)
        /\ choice = "rollbackAll" => rollbackServices = svcs
        /\ choice = "rollbackFailed" => rollbackServices = resultFailed
        /\ choice = "rollbackNone" => (CallsOf(2) = {} /\ lpc = "done")
        /\ \A c \in CallsOf(2) : c.service \in rollbackServices

\* scope failed-only after a run in which one of two services failed
C15_Witness ==
    /\ lpc = "done"
    /\ choice = "rollbackFailed"
    /\ Cardinality(svcs) = 2
    /\ Cardinality(resultFailed) = 1
    /\ CallsOf(2) # {}

\* C16: when a deploy call of the rollback pass has failed, deployAllWithLog
\* returns the error "rollback failed for" naming exactly the services
\* whose rollback failed, never nil.
C16_RollbackFailure ==
    (lpc = "done" /\ \E c \in CallsOf(2) : ~c.ok) =>
        /\ logRet[1] = "rollback failed for"
        /\ logRet[2] = {c.service : c \in {d \in CallsOf(2) : ~d.ok}}

\* of two rollbacks one failed
C16_Witness ==
    /\ lpc = "done"
    /\ Cardinality(CallsOf(2)) = 2
    /\ Cardinality(rbFailed) = 1
    /\ logRet[1] = "rollback failed for"

(***************************************************************************)
(* Claims about replaceCrontabBlock                                        *)
(***************************************************************************)
\* where the lines of d equal to l are
IdxOf(d, l) == {i \in 1..Len(d) : d[i] = l}

Min(S) == CHOOSE m \in S : \A n \in S : m <= n

\* the begin marker of id occurs in d
HasBegin(d, id) == IdxOf(d, beginMarker(id)) # {}

\* the first begin marker of id in d, and the end markers after it
FirstBegin(d, id) == Min(IdxOf(d, beginMarker(id)))
EndsAfter(d, id) == {j \in IdxOf(d, endMarker(id)) : j > FirstBegin(d, id)}

\* C17: applying replaceCrontabBlock a second time with the same blockID
\* and the same block gives the document the first application gave.
C17_Idempotent ==
    bpc = "twice" => res2 = res

\* the document held another block for blockID, which was replaced
C17_Witness ==
    /\ bpc = "twice"
    /\ HasBegin(doc, blockID)
    /\ EndsAfter(doc, blockID) # {}
    /\ res # doc
    /\ res2 = res

\* the string s is a prefix of the string r
IsStrPrefix(s, r) ==
    /\ Len(s) <= Len(r)
    /\ \A i \in 1..(Len(s) - 1) : s[i] = r[i]
    /\ LET a == s[Len(s)]
           b == r[Len(s)]
       IN Len(a) <= Len(b) /\ SubSeq(b, 1, Len(a)) = a

\* d with the lines from blockID's begin marker to the end marker after it
\* (the marker alone when no end marker follows) replaced by nb
Spliced(d, id, nb) ==
    LET i == FirstBegin(d, id)
        j == IF EndsAfter(d, id) = {} THEN i ELSE Min(EndsAfter(d, id))
    IN SubSeq(d, 1, i - 1) \o nb \o SubSeq(d, j + 1, Len(d))

\* C18 as stated: for every document, when blockID's block is replaced the
\* lines around it are byte-identical and in order, and when the block is
\* appended the whole document is byte-identical ahead of it.
C18_Original ==
    bpc \in {"once", "twice"} =>
        IF HasBegin(doc, blockID)
        THEN res = Spliced(doc, blockID, newBlock)
        ELSE IsStrPrefix(doc, res)

\* blockID's begin marker occurs at most once in d and, when it occurs, an
\* end marker of blockID follows it
WellFormed(d, id) ==
    /\ Cardinality(IdxOf(d, beginMarker(id))) <= 1
    /\ HasBegin(d, id) => EndsAfter(d, id) # {}

\* C18 amended: for a document well-formed for blockID, a replacement
\* leaves every line before the begin marker and after the end marker
\* byte-identical and in order, and an append leaves the document up to
\* its trailing newlines byte-identical ahead of the block.
C18_Frame ==
    (bpc \in {"once", "twice"} /\ WellFormed(doc, blockID)) =>
        IF HasBegin(doc, blockID)
        THEN res = Spliced(doc, blockID, newBlock)
        ELSE TrimRight(doc) # <<EmptyLine>> => IsStrPrefix(TrimRight(doc), res)

\* blockID's block was replaced between another block and a trailing line
C18_Witness ==
    /\ bpc = "once"
    /\ WellFormed(doc, blockID)
    /\ HasBegin(doc, blockID)
    /\ \E id \in BlockIDs \ {blockID} :
          HasBegin(doc, id) /\ HasBegin(res, id) /\ EndsAfter(res, id) # {}
    /\ res # doc

BlockCount(d, id) == Cardinality(IdxOf(d, beginMarker(id)))

\* C20: after any sequence of cronjob rollouts the crontab holds at most
\* one block per blockID, and exactly one block for every blockID whose
\* rollout succeeded.
C20_OneBlock ==
    /\ \A id \in BlockIDs : BlockCount(remote, id) <= 1
    /\ \A id \in deployed : BlockCount(remote, id) = 1

\* the commands of the running rollout with the given op, as indices
CronIdx(op) == {i \in 1..Len(cronCmds) : cronCmds[i].op = op}

\* crontab -l of the running rollout failed
ReadFailed == \E i \in CronIdx("read") : ~cronCmds[i].ok

\* the write of the running rollout succeeded
WriteOk == \E i \in CronIdx("write") : cronCmds[i].ok

\* C22: a failed read of the remote crontab is not fatal: the rollout goes
\* on with the empty document, so the document it writes is the new block
\* alone with the caller's previous tag, and its only possible error is
\* that of the write.
C22_ReadFailure ==
    ReadFailed =>
        LET first == buildBlock(cronID, cronTag, cronOld) \o <<EmptyLine>> IN
        /\ cronRet \in {"running", "nil", "writing crontab"}
        /\ cpc = "write" => crontab = first
        /\ cpc = "done" => CronIdx("write") # {}
        /\ WriteOk => (cronRet = "nil" /\ remote = first)

\* the read failed on a node that holds a crontab, the write succeeded
C22_Witness ==
    /\ ReadFailed
    /\ WriteOk
    /\ cronRet = "nil"
    /\ remote0 # <<EmptyLine>>

\* the value of the first line starting with prefix inside id's block of d,
\* "" when d holds no block of id or the block no such line
BlockField(d, id, prefix) ==
    IF ~HasBegin(d, id) \/ EndsAfter(d, id) = {} THEN ""
    ELSE LET inner == (FirstBegin(d, id) + 1)..(Min(EndsAfter(d, id)) - 1)
             hits == {k \in inner : Len(d[k]) >= 1 /\ d[k][1] = prefix}
         IN IF hits = {} THEN ""
            ELSE IF Len(d[Min(hits)]) >= 2 THEN d[Min(hits)][2] ELSE ""

\* the document the rollout read: nothing when the read failed
DocRead(d) == IF readOk THEN d ELSE <<EmptyLine>>

\* the previous tag the claim calls for
ExpectedPrevious(d) ==
    IF cronOld # "" THEN cronOld ELSE BlockField(DocRead(d), cronID, "# hoist:tag=")

\* C23: the previous field of the block the rollout writes is the oldTag
\* argument when that is non-empty, else the tag field of blockID's block in
\* the document that was read, and empty when there is no such block.
C23_Previous ==
    /\ cpc = "write" =>
          BlockField(crontab, cronID, "# hoist:previous=") = ExpectedPrevious(remote)
    /\ WriteOk =>
          BlockField(remote, cronID, "# hoist:previous=") = ExpectedPrevious(remote0)

\* without an oldTag the rollout took the tag of the block it replaced
C23_Witness ==
    /\ WriteOk
    /\ cronOld = ""
    /\ readOk
    /\ BlockField(remote0, cronID, "# hoist:tag=") # ""
    /\ BlockField(remote, cronID, "# hoist:previous=")
          = BlockField(remote0, cronID, "# hoist:tag=")
    /\ BlockField(remote, cronID, "# hoist:tag=") = cronTag

\* the document the rollout is to install, from the crontab it began with
Updated(d) ==
    LET c == ReadResult(readOk, d)
    IN replaceCrontabBlock(c, cronID, buildBlock(cronID, cronTag, Previous(cronOld, c, cronID)))

\* C24: a rollout issues at most one write, as its third command after a
\* pull that succeeded and the read; the write installs the whole updated
\* document; without a successful write the remote crontab is the one the
\* rollout began with, in particular after a failed connect or pull; a
\* failed write is returned as the error "writing crontab".
C24_SingleWrite ==
    /\ Cardinality(CronIdx("write")) <= 1
    /\ \A k \in CronIdx("write") :
        /\ k = 3
        /\ cronCmds[1].op = "pull" /\ cronCmds[1].ok
        /\ cronCmds[2].op = "read"
        /\ cpc = "done"
        /\ cronCmds[k].ok => (cronRet = "nil" /\ remote = Updated(remote0))
        /\ ~cronCmds[k].ok => cronRet = "writing crontab"
    /\ ~WriteOk => remote = remote0
    /\ cronRet \in {"connecting", "pulling image"} => CronIdx("write") = {}

\* the one write replaced a block and kept the other lines of the crontab
C24_Witness ==
    /\ WriteOk
    /\ readOk
    /\ Len(cronCmds) = 3
    /\ remote # remote0
    /\ HasBegin(remote0, cronID)
    /\ \E id \in BlockIDs \ {cronID} : HasBegin(remote, id)

(***************************************************************************)
(* Claims about extractCrontabBlock                                        *)
(***************************************************************************)
\* C21: when the document holds a begin marker of blockID with an end
\* marker of blockID after it, extractCrontabBlock returns the lines
\* strictly between the two, verbatim; when it holds no such pair the
\* function reports absent (the empty string).
C21_Extract ==
    bpc = "extracted" =>
        IF HasBegin(doc, blockID) /\ EndsAfter(doc, blockID) # {}
        THEN ext = Join(SubSeq(doc, FirstBegin(doc, blockID) + 1,
                               Min(EndsAfter(doc, blockID)) - 1))
        ELSE ext = <<EmptyLine>>

(***************************************************************************)
(* Claims about the merged build catalog                                   *)
(***************************************************************************)
\* the tags of a listing
TagsOf(q) == {q[k].Tag : k \in 1..Len(q)}

\* the tags every provider returned
Common == {t \in BuildTags : \A i \in ProviderIdx : t \in TagsOf(fetched[i].builds)}

\* the builds of the common tags, as the providers returned them
CommonBuilds ==
    {b \in UNION {{fetched[i].builds[k] : k \in 1..Len(fetched[i].builds)} : i \in ProviderIdx} :
        b.Tag \in Common}

Listed == mpc = "listed" /\ ~pageErr

C26_Pages ==
    mpc = "paged" =>
        \E a \in Sorted(CommonBuilds) :
            /\ page = Slice(a, limit, offset)
            /\ page2 = Slice(a, limit, offset + limit)

(***************************************************************************)
(* Claims about the tag codec                                              *)
(***************************************************************************)
\* a commit hash: its first seven characters are lower-case hex digits
ValidSha(sha) == Len(sha) >= 7 /\ \A k \in 1..7 : sha[k] \in HexChars

\* 0 when attempt < 2, otherwise attempt
Normalized(a) == IF a \in {<<"0">>, <<"1">>} THEN <<"0">> ELSE a

\* what the round trip is to give back
Recovered ==
    [tag |-> [Branch |-> sanitizeBranch(genBranch),
              SHA |-> SubSeq(genSha, 1, 7),
              Time |-> [genTime EXCEPT !.ns = 0],
              Attempt |-> Normalized(genAttempt)],
     err |-> "nil"]

RoundTrip == tpc = "roundtrip" /\ ValidSha(genSha)

\* C27 as stated: for every branch, commit hash, time and attempt >= 0,
\* parseTag(generateTag(...)) succeeds with the sanitized branch, the hash cut
\* to seven characters, the time to the second and the normalized attempt.
C27_Original == RoundTrip => parsed = Recovered

\* C27 amended: the same, for attempts whose decimal form is not fourteen
\* digits long.
C27_RoundTrip == (RoundTrip /\ Len(genAttempt) # 14) => parsed = Recovered

\* a branch with a hyphen of its own and a character that is sanitized to
\* one, a hash longer than seven, a time with a fraction of a second and an
\* attempt of two digits
C27_Witness ==
    /\ RoundTrip
    /\ "-" \in Range(genBranch) /\ "/" \in Range(genBranch)
    /\ Len(genSha) > 7
    /\ genTime.ns # 0
    /\ genAttempt = <<"1", "2">>
    /\ parsed = Recovered

\* the segments of a string without its trailing attempt segment
Kept(str) ==
    LET p == Split(str)
    IN IF /\ p[Len(p)] # <<>>
          /\ Range(p[Len(p)]) \subseteq DigitChars
          /\ Len(p[Len(p)]) # 14
       THEN SubSeq(p, 1, Len(p) - 1)
       ELSE p

SevenHex(seg) == Len(seg) = 7 /\ Range(seg) \subseteq HexChars

\* fourteen digits that read as YYYYMMDDHHMMSS
Stamp(seg) == Len(seg) = 14 /\ Range(seg) \subseteq DigitChars /\ ParseTime(seg).ok

Rejected == parsed.err # "nil" /\ parsed.tag = ZeroTag

\* C28: parseTag returns an error and the zero tag for the empty string,
\* for a string with fewer than three segments once a trailing attempt
\* segment is dropped, for a hash segment that is not seven hex characters
\* and for a timestamp segment that is not fourteen digits or is no date.
C28_Rejects ==
    tpc \in {"parsed", "roundtrip"} =>
        ((\/ tagStr = <<>>
          \/ Len(Kept(tagStr)) < 3
          \/ ~SevenHex(Kept(tagStr)[Len(Kept(tagStr)) - 1])
          \/ ~Stamp(Kept(tagStr)[Len(Kept(tagStr))]))
            => Rejected)

\* a string of branch, hash and fourteen digits that are no date
C28_Witness ==
    /\ tpc = "parsed"
    /\ Len(Kept(tagStr)) >= 3
    /\ SevenHex(Kept(tagStr)[Len(Kept(tagStr)) - 1])
    /\ Len(Kept(tagStr)[Len(Kept(tagStr))]) = 14
    /\ ~Stamp(Kept(tagStr)[Len(Kept(tagStr))])
    /\ Rejected

(***************************************************************************)
(* Claims about the ssh channel of a rollout                               *)
(***************************************************************************)
\* C29: in a server or cronjob rollout whose dial succeeded, every remote
\* command is issued on the open, never yet closed channel; the channel is
\* closed once, in the step in which the rollout returns; and a rollout that
\* has returned, whatever it returned, has closed its channel exactly once.
C29_CloseOnce ==
    [][/\ Len(cmds') > Len(cmds) => (chan = "open" /\ closes = 0)
       /\ closes' # closes =>
              /\ closes = 0 /\ closes' = 1
              /\ chan = "open" /\ chan' = "closed"
              /\ spc' = "done"
       /\ (spc' = "done" /\ chan' # "refused") => (chan' = "closed" /\ closes' = 1)
       /\ (spc' \notin {"idle", "done"} /\ chan' # "none") => (chan' = "open" /\ closes' = 0)
       /\ Len(cronCmds') > Len(cronCmds) => (cronChan = "open" /\ cronCloses = 0)
       /\ cronCloses' > cronCloses =>
              /\ cronCloses = 0 /\ cronCloses' = 1
              /\ cronChan = "open" /\ cronChan' = "closed"
              /\ cpc' = "done"
       /\ (cpc' = "done" /\ cronChan' # "refused") => (cronChan' = "closed" /\ cronCloses' = 1)
       /\ (cpc' \notin {"idle", "off", "done"} /\ cronChan' # "none")
              => (cronChan' = "open" /\ cronCloses' = 0)
      ]_vars

\* a server rollout that pulled, started, probed and failed its health check
C29_Witness ==
    /\ spc = "done"
    /\ ret = "healthcheck failed"
    /\ OpIdx("curl") # {}
    /\ chan = "closed"
    /\ closes = 1

(***************************************************************************)
(* Claims about the probe address                                          *)
(***************************************************************************)
\* C30: pollHealthcheck resolves the probe address once, with one docker
\* inspect that precedes every probe, and every probe it issues goes to the
\* address that inspect printed.
C30_ResolveOnce ==
    /\ Cardinality(OpIdx("inspect")) <= 1
    /\ \A i \in OpIdx("inspect") :
           /\ cmds[i].ok => ip \in Addresses
           /\ ~cmds[i].ok => (ip = "" /\ OpIdx("curl") = {})
    /\ OpIdx("curl") # {} =>
           \E i \in OpIdx("inspect") : \A j \in OpIdx("curl") : i < j
    /\ Len(probes) = Cardinality(OpIdx("curl"))
    /\ \A k \in 1..Len(probes) : probes[k] = ip

\* three probes after the one inspect
C30_Witness ==
    /\ Cardinality(OpIdx("inspect")) = 1
    /\ Len(probes) >= 3
    /\ \A k \in 1..Len(probes) : probes[k] = ip
    /\ ip \in Addresses

(***************************************************************************)
(* Claims about the static rollout                                         *)
(***************************************************************************)
\* C31: a static rollout that returns "build not found" has issued no
\* PutObject, has left the previous-tag and current-tag objects as they
\* were, and has issued no CDN invalidation, whatever oldTag it was given.
C31_NotFound ==
    stRet = "build not found" =>
        /\ stPuts = <<>>
        /\ stMarkers = stMarkers0
        /\ stInval = 0

(***************************************************************************)
(* Claims about the error deployAllWithLog returns                         *)
(***************************************************************************)
\* C37: when a service's deploy failed in the first pass, deployAllWithLog
\* returns a non-nil error, whatever the rollback choice and whatever the
\* rollback pass did.
C37_FailureReported ==
    (lpc = "done" /\ resultFailed # {}) => logRet # <<"nil">>

(***************************************************************************)
(* Claims about two concurrent cronjob rollouts                            *)
(***************************************************************************)
\* C32: when both rollouts have returned nil the crontab holds the block of
\* each of the two services, carrying the tag that service was rolled out
\* with.
C32_BothBlocks ==
    (\A i \in PairTasks : pairRet[i] = "nil") =>
        \A i \in PairTasks :
            /\ HasBegin(pairRemote, PairID(i))
            /\ BlockField(pairRemote, PairID(i), "# hoist:tag=") = pairTag[i]

(***************************************************************************)
(* Claims about the instances a server rollout leaves behind               *)
(***************************************************************************)
\* C33: a server rollout of the service issues no stop and no remove for an
\* instance of another service, and leaves that instance on the host as it
\* found it, also when the other service's name is the service's name, a
\* hyphen and more.
C33_OwnInstancesOnly ==
    /\ \A i \in OpIdx("stop") \cup OpIdx("rm") : cmds[i].target # "other"
    /\ \A c \in host0 : c.owner = OtherService => c \in host

\* the running instance of the service when the rollout began
PrevRunning(t) ==
    \E c \in host0 : c.id = "prev" /\ c.running /\ c.name = Name(Service, t)

\* a command of the rollout failed although docker could have done it: not
\* a start under a name that is taken, nor a remove, which docker refuses
\* for a running container
Transient(i) ==
    /\ ~cmds[i].ok
    /\ cmds[i].op # "rm"
    /\ ~(cmds[i].op = "run" /\ cmds[i].target # "none")

\* C34: the rollback rollout, tag the running P and oldTag the failed T,
\* returns nil with an instance of P running, when the dial and every
\* remote command docker can carry out succeed.
C34_RollbackRollout ==
    (/\ PrevRunning(tag) /\ oldTag # tag
     /\ Deployed /\ chan = "closed"
     /\ \A i \in CmdIdx : ~Transient(i))
        => /\ ret = "nil"
           /\ \E c \in host : c.running /\ c.name = Name(Service, tag)

\* C35: a redeploy of the running tag whose health check failed leaves the
\* instance that was running, running under its name <service>-<tag>.
C35_RedeployKeepsName ==
    (PrevRunning(tag) /\ oldTag = tag /\ ret = "healthcheck failed")
        => \E c \in host : c.id = "prev" /\ c.running /\ c.name = Name(Service, tag)


(***************************************************************************)
(* Claims about the other services' blocks in a cronjob rollout            *)
(***************************************************************************)
\* id's block of d is in e with the same tag and previous fields
SameBlock(d, e, id) ==
    /\ HasBegin(e, id)
    /\ BlockCount(e, id) = BlockCount(d, id)
    /\ BlockField(e, id, "# hoist:tag=") = BlockField(d, id, "# hoist:tag=")
    /\ BlockField(e, id, "# hoist:previous=") = BlockField(d, id, "# hoist:previous=")

\* C36: a cronjob rollout for blockID X never removes or alters the block
\* of another blockID that the remote crontab held when the rollout began,
\* also when the command that reads the crontab returns an error.
C36_OthersKept ==
    \A id \in BlockIDs \ {cronID} :
        HasBegin(remote0, id) => SameBlock(remote0, remote, id)


(***************************************************************************)
(* Claims about the history queries after a cronjob rollout                *)
(***************************************************************************)
\* the previous tag of the rollout: the oldTag argument, else the tag field
\* of the block that the rollout replaced on the node
ReplacedPrevious ==
    IF cronOld # "" THEN cronOld ELSE BlockField(remote0, cronID, "# hoist:tag=")

\* C38: after a cronjob rollout of tag T returned nil, and before any other
\* write to the crontab, the history queries for the rollout's blockID that
\* read the crontab answer T as the current tag and, as the previous tag,
\* the oldTag argument or, without one, the tag field of the block the
\* rollout replaced.
C38_History ==
    (cpc = "done" /\ cronRet = "nil") =>
        /\ (histCur # <<>> /\ histCur.id = cronID /\ histCur.ok)
              => histCur.tag = cronTag
        /\ (histPrev # <<>> /\ histPrev.id = cronID /\ histPrev.ok)
              => histPrev.tag = ReplacedPrevious


(***************************************************************************)
(* Claims about repeated calls of the merged catalog                       *)
(***************************************************************************)
\* the tags of a page, in order
TagSeq(builds) == [k \in 1..Len(builds) |-> builds[k].Tag]

\* C39: two listBuilds calls with the same limit and offset over unchanged
\* backend results return the same sequence of tags, also when several
\* common builds have the same timestamp.
C39_Deterministic ==
    mpc = "again" => TagSeq(pageAgain) = TagSeq(page)


(***************************************************************************)
(* Claims about listing the builds of a bucket                             *)
(***************************************************************************)
\* C40: for every string that parseTag accepts, generateTag of the parsed
\* fields, as buildFromTag computes it, is that string.
C40_Canonical ==
    tpc = "listed" => rebuilt = tagStr

====
